---- MODULE Spec2Model ----
(***************************************************************************)
(* A model of lib/Conversion/ExportVerilog/PrepareForEmission.cpp: the     *)
(* legalization of a hw.module body before Verilog emission.               *)
(*                                                                         *)
(* The IR is an arena of operations.  Operation o of the arena is          *)
(* g.ops[o]; a Value is <<o, i>> (result i of operation o) or <<0, i>>     *)
(* (module port i).  Block 0 is the module body; the single-block region   *)
(* of operation o is block o.  g.order[b] is the operation list of block b.*)
(* Every result keeps its use list (field ru) in MLIR's order: the newest  *)
(* use first.                                                              *)
(***************************************************************************)
EXTENDS Integers, Sequences, FiniteSets, TLC

VARIABLES
  g,        \* the IR of the module being prepared
  opt,      \* the LoweringOptions of the run
  stack,    \* the activations of legalizeHWModule / prettifyAfterLegalization
  mode,     \* where prepareHWModule is: "legalize", "legalized", "prettify", "done", "failed"
  run,      \* how many times legalizeHWModule was started on this module
  input,    \* the IR as it was handed to the first run
  firstOut, \* the IR the first run of legalizeHWModule returned
  memo,     \* EmittedExpressionStateManager::expressionStates
  log       \* what the scan did: the rewrites applied, in order

vars == <<g, opt, stack, mode, run, input, firstOut, memo, log>>

(***************************************************************************)
(* Bounds of the model.                                                    *)
(***************************************************************************)
Width == 3          \* bit width of every integer Value
MaxOperands == 5    \* operands of the widest variadic node of an input
MaxRuns == 2        \* runs of legalizeHWModule on one module

RECURSIVE Pow2(_)
Pow2(n) == IF n = 0 THEN 1 ELSE 2 * Pow2(n - 1)

(***************************************************************************)
(* Operation kinds.                                                        *)
(***************************************************************************)
DeclKinds == {"wire", "reg", "logic"}
\* Operations with the ProceduralRegion trait.
ProceduralKinds == {"always", "alwaysff", "initial", "if", "ifdefproc"}
\* Operations that own a region (one block in this model).
RegionKinds == ProceduralKinds \cup {"ifdef"}
\* comb, sv and hw operations; "foreign" stands for any other dialect.
KnownKinds == DeclKinds \cup RegionKinds \cup
              {"read", "idx", "assign", "bpassign", "instance", "output",
               "const", "add", "mul", "and", "sub", "xor", "screate", "se",
               "bitcast",
               "explode", "extract"}

Port(i) == <<0, i>>
Res(o) == <<o, 1>>
IsPort(v) == v[1] = 0

\* The sequence f[1], ..., f[n].
RECURSIVE TupleOf(_, _)
TupleOf(f, n) == IF n = 0 THEN <<>> ELSE Append(TupleOf(f, n - 1), f[n])
NoUses(nres) == TupleOf([i \in 1..nres |-> <<>>], nres)

Proto(kind, args, nres) ==
  [kind |-> kind, args |-> args, nres |-> nres, blk |-> -1,
   hint |-> "", two |-> FALSE, val |-> 0, ru |-> NoUses(nres)]

(***************************************************************************)
(* Reading the graph.                                                      *)
(***************************************************************************)
NumOps(gr) == Len(gr.ops)
Live(gr) == {o \in 1..NumOps(gr) : gr.ops[o].blk >= 0}
Kind(gr, o) == IF o = 0 THEN "module" ELSE gr.ops[o].kind
BlockOf(gr, o) == gr.ops[o].blk
\* op->getParentOp(): the operation owning the block (0: the hw.module).
ParentOp(gr, o) == gr.ops[o].blk
\* hasTrait<ProceduralRegion>() of the operation owning block b.
IsProceduralBlock(gr, b) == b # 0 /\ gr.ops[b].kind \in ProceduralKinds

DefOp(v) == v[1]
UseList(gr, v) == IF IsPort(v) THEN <<>> ELSE gr.ops[v[1]].ru[v[2]]

RECURSIVE Concat(_)
Concat(ss) == IF ss = <<>> THEN <<>> ELSE Head(ss) \o Concat(Tail(ss))

\* op->getUses(): the uses of every result, result by result.
OpUses(gr, o) == Concat(gr.ops[o].ru)
NumUses(gr, o) == Len(OpUses(gr, o))
HasOneUse(gr, o) == NumUses(gr, o) = 1
UseEmpty(gr, o) == NumUses(gr, o) = 0
FirstUse(gr, o) == Head(OpUses(gr, o))
Users(gr, o) == {OpUses(gr, o)[i][1] : i \in 1..NumUses(gr, o)}

IndexOf(s, x) == CHOOSE i \in 1..Len(s) : s[i] = x
InSeq(s, x) == \E i \in 1..Len(s) : s[i] = x
Remove(s, x) == SelectSeq(s, LAMBDA y : y # x)
InsertAt(s, i, x) == SubSeq(s, 1, i - 1) \o <<x>> \o SubSeq(s, i, Len(s))

Pos(gr, o) == IndexOf(gr.order[gr.ops[o].blk], o)
\* The operation after o in its block; 0 is the block's end.
NextOp(gr, o) ==
  LET s == gr.order[gr.ops[o].blk] i == Pos(gr, o)
  IN IF i = Len(s) THEN 0 ELSE s[i + 1]
FrontOp(gr, b) == IF gr.order[b] = <<>> THEN 0 ELSE Head(gr.order[b])

\* Is block b the block of o or nested in it at any depth?  (o = 0: the module)
RECURSIVE Encloses(_, _, _)
Encloses(gr, b, c) ==
  IF c = b THEN TRUE ELSE IF c = 0 THEN FALSE ELSE Encloses(gr, b, gr.ops[c].blk)

\* The ancestor of u (or u itself) that lies directly in block b.
RECURSIVE AncestorIn(_, _, _)
AncestorIn(gr, b, u) ==
  IF gr.ops[u].blk = b THEN u ELSE AncestorIn(gr, b, gr.ops[u].blk)

(***************************************************************************)
(* Mutating the graph.                                                     *)
(***************************************************************************)
Detach(gr, o) ==
  IF gr.ops[o].blk < 0 THEN gr
  ELSE [gr EXCEPT !.order[gr.ops[o].blk] = Remove(@, o), !.ops[o].blk = -1]

\* An insertion point: before operation op, or at the end of block blk.
Before(t) == [op |-> t, blk |-> -1]
AtEnd(b) == [op |-> 0, blk |-> b]
\* ImplicitLocOpBuilder::atBlockBegin
AtBlockBegin(gr, b) == IF gr.order[b] = <<>> THEN AtEnd(b) ELSE Before(Head(gr.order[b]))
\* OpBuilder::setInsertionPointAfter
AfterOp(gr, o) == IF NextOp(gr, o) = 0 THEN AtEnd(gr.ops[o].blk) ELSE Before(NextOp(gr, o))

Place(gr, o, ip) ==
  IF ip.op = 0
  THEN [gr EXCEPT !.order[ip.blk] = Append(@, o), !.ops[o].blk = ip.blk]
  ELSE LET b == gr.ops[ip.op].blk
       IN [gr EXCEPT !.order[b] = InsertAt(@, IndexOf(@, ip.op), o), !.ops[o].blk = b]

\* Operation::moveBefore / moveAfter (moving before oneself changes nothing).
MoveBefore(gr, o, t) == IF o = t THEN gr ELSE Place(Detach(gr, o), o, Before(t))
MoveAfter(gr, o, t) ==
  IF o = t THEN gr
  ELSE LET d == Detach(gr, o) IN Place(d, o, AfterOp(d, t))

AddUse(ops, v, use) ==
  IF IsPort(v) THEN ops ELSE [ops EXCEPT ![v[1]].ru[v[2]] = <<use>> \o @]
DropUse(ops, v, use) ==
  IF IsPort(v) THEN ops ELSE [ops EXCEPT ![v[1]].ru[v[2]] = Remove(@, use)]

RECURSIVE AddUses(_, _, _, _)
AddUses(ops, o, args, k) ==
  IF k > Len(args) THEN ops
  ELSE AddUses(AddUse(ops, args[k], <<o, k>>), o, args, k + 1)

RECURSIVE DropUses(_, _, _, _)
DropUses(ops, o, args, k) ==
  IF k > Len(args) THEN ops
  ELSE DropUses(DropUse(ops, args[k], <<o, k>>), o, args, k + 1)

\* builder.create / Operation::create + insert: the new operation is
\* NumOps(gr) + 1; its operands' use lists get the new uses in front.
Create(gr, proto, ip) ==
  LET n == NumOps(gr) + 1
      ops1 == AddUses(Append(gr.ops, proto), n, proto.args, 1)
      g1 == [ops |-> ops1,
             order |-> [b \in 0..n |-> IF b < n THEN gr.order[b] ELSE <<>>]]
  IN Place(g1, n, ip)
NewId(gr) == NumOps(gr) + 1

\* OpOperand::set
SetOperand(gr, u, k, v) ==
  LET old == gr.ops[u].args[k]
      ops1 == DropUse(gr.ops, old, <<u, k>>)
      ops2 == [ops1 EXCEPT ![u].args[k] = v]
  IN [gr EXCEPT !.ops = AddUse(ops2, v, <<u, k>>)]

\* Value::replaceAllUsesWith
RECURSIVE ReplaceAllUsesWith(_, _, _)
ReplaceAllUsesWith(gr, old, new) ==
  IF UseList(gr, old) = <<>> THEN gr
  ELSE LET use == Head(UseList(gr, old))
       IN ReplaceAllUsesWith(SetOperand(gr, use[1], use[2], new), old, new)

\* Operation::erase of an operation without regions.
Erase(gr, o) ==
  LET d == Detach(gr, o)
  IN [d EXCEPT !.ops = DropUses(d.ops, o, d.ops[o].args, 1)]

(***************************************************************************)
(* The expression-classification oracle (ExportVerilogInternals.h and      *)
(* ExportVerilog.cpp; consumed by the pass, not defined in its file).      *)
(***************************************************************************)
\* isVerilogExpression
IsVerilogExpression(gr, o) ==
  Kind(gr, o) \in {"read", "idx", "const", "add", "mul", "and", "sub", "xor", "screate",
                   "se", "bitcast", "extract"}
\* isConstantExpression
IsConstantExpression(gr, o) == Kind(gr, o) = "const"
\* isExpressionAlwaysInline: constants, reads and inout-typed selections.
IsExpressionAlwaysInline(gr, o) == Kind(gr, o) \in {"const", "read", "idx"}
\* mlir::isMemoryEffectFree
IsMemoryEffectFree(gr, o) == Kind(gr, o) # "se"
\* OpTrait::IsCommutative
IsCommutative(gr, o) == Kind(gr, o) \in {"add", "mul", "and", "xor"}
\* The result type is an hw::InOutType.
IsInOutTyped(gr, o) == Kind(gr, o) \in DeclKinds \cup {"idx"}

\* isOkToBitSelectFrom: a port, a read or a constant.
IsOkToBitSelectFrom(gr, v) == IsPort(v) \/ Kind(gr, DefOp(v)) \in {"read", "const"}

\* isExpressionUnableToInline: a struct_create, a user in another block, or
\* a bit selection from something that is not a name.
IsExpressionUnableToInline(gr, o) ==
  \/ Kind(gr, o) = "screate"
  \/ \E u \in Users(gr, o) :
       \/ BlockOf(gr, u) # BlockOf(gr, o)
       \/ /\ Kind(gr, u) = "extract"
          /\ gr.ops[u].args[1] = Res(o)
          /\ ~IsOkToBitSelectFrom(gr, Res(o))

\* isExpressionEmittedInline
IsExpressionEmittedInline(gr, o) ==
  IF UseEmpty(gr, o) THEN TRUE
  ELSE IF HasOneUse(gr, o) /\ Kind(gr, FirstUse(gr, o)[1]) \in {"output", "assign", "bpassign"}
  THEN TRUE
  ELSE IF ~HasOneUse(gr, o) /\ ~IsExpressionAlwaysInline(gr, o) THEN FALSE
  ELSE ~IsExpressionUnableToInline(gr, o)

(***************************************************************************)
(* The helpers of the pass.                                                *)
(***************************************************************************)
\* isSimpleReadOrPort
IsSimpleReadOrPort(gr, v) ==
  IF IsPort(v) THEN TRUE
  ELSE IF Kind(gr, DefOp(v)) # "read" THEN FALSE
  ELSE LET src == gr.ops[DefOp(v)].args[1]
       IN IF IsPort(src) THEN FALSE ELSE Kind(gr, DefOp(src)) \in DeclKinds

\* shouldSpillWire
ShouldSpillWire(gr, o) ==
  IF ~IsVerilogExpression(gr, o) THEN FALSE ELSE ~IsExpressionEmittedInline(gr, o)

\* lowerAlwaysInlineOperation; LowerAlwaysInlineOperands is its lambda
\* recursivelyHandleOperands, from operand k on.
RECURSIVE LowerAlwaysInlineOperation(_, _), LowerAlwaysInlineOperands(_, _, _)
LowerAlwaysInlineOperation(gr, o) ==
  IF ~HasOneUse(gr, o)
  THEN LET use == FirstUse(gr, o)
           n == NewId(gr)
       IN LowerAlwaysInlineOperation(
            LowerAlwaysInlineOperands(
              SetOperand(Create(gr, [gr.ops[o] EXCEPT !.blk = -1,
                                                      !.ru = NoUses(gr.ops[o].nres)],
                                Before(use[1])),
                         use[1], use[2], Res(n)),
              n, 1),
            o)
  ELSE LowerAlwaysInlineOperands(MoveBefore(gr, o, FirstUse(gr, o)[1]), o, 1)
LowerAlwaysInlineOperands(gr, o, k) ==
  IF k > Len(gr.ops[o].args) THEN gr
  ELSE LET v == gr.ops[o].args[k] IN
       IF ~IsPort(v) /\ IsExpressionAlwaysInline(gr, DefOp(v))
       THEN LowerAlwaysInlineOperands(LowerAlwaysInlineOperation(gr, DefOp(v)), o, k + 1)
       ELSE LowerAlwaysInlineOperands(gr, o, k + 1)

\* spillWiresForInstanceInputs, from input k on; ip is the builder's
\* insertion point (the beginning of the module body).
RECURSIVE SpillInputsFrom(_, _, _, _)
SpillInputsFrom(gr, o, k, ip) ==
  IF k > Len(gr.ops[o].args) THEN gr
  ELSE LET src == gr.ops[o].args[k]
           w == NewId(gr) IN
       IF IsSimpleReadOrPort(gr, src) THEN SpillInputsFrom(gr, o, k + 1, ip)
       ELSE SpillInputsFrom(
              SetOperand(
                MoveBefore(
                  MoveBefore(
                    Create(Create(Create(gr, [Proto("wire", <<>>, 1) EXCEPT !.hint = "_inst"], ip),
                                  Proto("read", <<Res(w)>>, 1), ip),
                           Proto("assign", <<Res(w), src>>, 0), ip),
                    w + 1, o),
                  w + 2, o),
                o, k, Res(w + 1)),
              o, k + 1, ip)
\* A spillWiresForInstanceInputs that leaves the inputs as they are.
SpillWiresForInstanceInputsSkipped(gr, o) == gr

SpillWiresForInstanceInputs(gr, o) == SpillInputsFrom(gr, o, 1, AtBlockBegin(gr, 0))

\* The while loop shared by lowerInstanceResults and lowerUsersToTemporaryWire:
\* every use of v gets its own read of wire w, placed before the user.
RECURSIVE RedirectUsesToReads(_, _, _, _)
RedirectUsesToReads(gr, v, w, ip) ==
  IF UseList(gr, v) = <<>> THEN gr
  ELSE LET r == NewId(gr)
           use == Head(UseList(gr, v))
       IN RedirectUsesToReads(
            MoveBefore(SetOperand(Create(gr, Proto("read", <<Res(w)>>, 1), ip),
                                  use[1], use[2], Res(r)),
                       r, use[1]),
            v, w, ip)

\* builder.create of the connection (an assign or a bpassign) of a new wire,
\* and its moveAfter(op).
ConnectAfter(gr, proto, ip, o) == MoveAfter(Create(gr, proto, ip), NewId(gr), o)

\* lowerInstanceResults, from result k on.
RECURSIVE LowerResultsFrom(_, _, _, _)
LowerResultsFrom(gr, o, k, ip) ==
  IF k > gr.ops[o].nres THEN gr
  ELSE LET result == <<o, k>>
           uses == UseList(gr, result)
           owner == uses[1][1]
           w == NewId(gr) IN
       IF Len(uses) = 1 /\ Kind(gr, owner) = "output"
       THEN LowerResultsFrom(gr, o, k + 1, ip)
       ELSE IF Len(uses) = 1 /\ Kind(gr, owner) = "assign"
       THEN LowerResultsFrom(MoveAfter(gr, owner, o), o, k + 1, ip)
       ELSE LowerResultsFrom(
              ConnectAfter(
                RedirectUsesToReads(
                  Create(gr, [Proto("wire", <<>>, 1) EXCEPT !.hint = "_inst"], ip),
                  result, w, ip),
                Proto("assign", <<Res(w), result>>, 0), ip, o),
              o, k + 1, ip)
\* A lowerInstanceResults that gives every result a wire, a Connection of
\* its own included.
RECURSIVE AnchorResultsFrom(_, _, _, _)
AnchorResultsFrom(gr, o, k, ip) ==
  IF k > gr.ops[o].nres THEN gr
  ELSE AnchorResultsFrom(
         ConnectAfter(
           RedirectUsesToReads(
             Create(gr, [Proto("wire", <<>>, 1) EXCEPT !.hint = "_inst"], ip),
             <<o, k>>, NewId(gr), ip),
           Proto("assign", <<Res(NewId(gr)), <<o, k>>>>, 0), ip, o),
         o, k + 1, ip)
LowerInstanceResultsAlways(gr, o) == AnchorResultsFrom(gr, o, 1, AtBlockBegin(gr, 0))

LowerInstanceResults(gr, o) == LowerResultsFrom(gr, o, 1, AtBlockBegin(gr, 0))

\* findLogicOpInsertionPoint: <<block, iterator>>, the iterator an operation.
RECURSIVE FindLogicOpInsertionPoint(_, _)
FindLogicOpInsertionPoint(gr, o) ==
  IF Kind(gr, ParentOp(gr, o)) = "ifdefproc"
  THEN FindLogicOpInsertionPoint(gr, ParentOp(gr, o))
  ELSE <<BlockOf(gr, o), FrontOp(gr, BlockOf(gr, o))>>

\* lowerUsersToTemporaryWire: the wire w stays at the beginning of the block
\* when emitWireAtBlockBegin, else it is moved after the operation.
PlaceWire(gr, w, o, atBegin) == IF atBegin THEN gr ELSE MoveAfter(gr, w, o)

\* A lowerUsersToTemporaryWire that reads its results through one Read each:
\* the Read of the first use serves every use.
RECURSIVE ShareReadsFrom(_, _, _)
ShareReadsFrom(gr, o, k) ==
  IF k > gr.ops[o].nres THEN gr
  ELSE LET proc == IsProceduralBlock(gr, BlockOf(gr, o))
           w == NewId(gr)
           first == UseList(gr, <<o, k>>)[1][1]
           g1 == Create(gr, Proto(IF proc THEN "logic" ELSE "wire", <<>>, 1), AfterOp(gr, o))
           g2 == IF UseList(gr, <<o, k>>) = << >> THEN g1
                 ELSE ReplaceAllUsesWith(Create(g1, Proto("read", <<Res(w)>>, 1), Before(first)),
                                         <<o, k>>, Res(w + 1))
       IN ShareReadsFrom(
            Create(g2, Proto(IF proc THEN "bpassign" ELSE "assign", <<Res(w), <<o, k>> >>, 0),
                   AfterOp(g2, w)),
            o, k + 1)
LowerUsersSharingReads(gr, o, emitWireAtBlockBegin) == ShareReadsFrom(gr, o, 1)

\* lowerUsersToTemporaryWire: createWireForResult for results k.. of o.
RECURSIVE CreateWiresFrom(_, _, _, _, _, _)
CreateWiresFrom(gr, o, k, name, atBegin, ip) ==
  IF k > gr.ops[o].nres THEN gr
  ELSE LET proc == IsProceduralBlock(gr, BlockOf(gr, o))
           w == NewId(gr)
       IN CreateWiresFrom(
            PlaceWire(
              ConnectAfter(
                RedirectUsesToReads(
                  Create(gr, [Proto(IF proc THEN "logic" ELSE "wire", <<>>, 1)
                                EXCEPT !.hint = name], ip),
                  <<o, k>>, w, ip),
                Proto(IF proc THEN "bpassign" ELSE "assign", <<Res(w), <<o, k>> >>, 0), ip, o),
              w, o, atBegin),
            o, k + 1, name, atBegin, ip)
LowerUsersToTemporaryWire(gr, o, emitWireAtBlockBegin) ==
  LET ip == AtBlockBegin(gr, BlockOf(gr, o)) IN
  IF gr.ops[o].nres = 1
  THEN CreateWiresFrom([gr EXCEPT !.ops[o].hint = ""], o, 1,
                       IF gr.ops[o].hint = "" THEN "_GEN" ELSE gr.ops[o].hint,
                       emitWireAtBlockBegin, ip)
  ELSE CreateWiresFrom(gr, o, 1, "", emitWireAtBlockBegin, ip)

\* The node LowerToChain creates above the chain r of the other operands.
ChainNode(gr, o, x, r) ==
  [g |-> Create(r.g, Proto(gr.ops[o].kind, <<x, r.v>>, 1), Before(o)),
   v |-> Res(NewId(r.g)), newOps |-> Append(r.newOps, NewId(r.g))]

\* A lowerFullyAssociativeOp that splits after the first operand instead of
\* at the midpoint: a chain, not a balanced tree.
RECURSIVE LowerToChain(_, _, _, _)
LowerToChain(gr, o, xs, newOps) ==
  IF Len(xs) = 1 THEN [g |-> gr, v |-> xs[1], newOps |-> newOps]
  ELSE ChainNode(gr, o, xs[1], LowerToChain(gr, o, Tail(xs), newOps))

\* A lowerFullyAssociativeOp that leaves the name hint on the operation, so
\* that every call finds it.
RECURSIVE LowerKeepingName(_, _, _, _)
LowerKeepingName(gr, o, xs, newOps) ==
  IF Len(xs) = 1 THEN [g |-> gr, v |-> xs[1], newOps |-> newOps]
  ELSE LET firstHalf == Len(xs) \div 2
           l == IF Len(xs) = 2 THEN [g |-> gr, v |-> xs[1], newOps |-> newOps]
                ELSE LowerKeepingName(gr, o, SubSeq(xs, 1, firstHalf), newOps)
           r == IF Len(xs) = 2 THEN [g |-> l.g, v |-> xs[2], newOps |-> l.newOps]
                ELSE LowerKeepingName(l.g, o, SubSeq(xs, firstHalf + 1, Len(xs)), l.newOps)
       IN [g |-> Create(r.g, [Proto(gr.ops[o].kind, <<l.v, r.v>>, 1)
                                EXCEPT !.hint = gr.ops[o].hint, !.two = gr.ops[o].two],
                        Before(o)),
           v |-> Res(NewId(r.g)), newOps |-> Append(r.newOps, NewId(r.g))]

\* lowerFullyAssociativeOp on the operands xs of o: the graph, the Value of
\* the subtree and the operations created so far (newOps).
RECURSIVE LowerFullyAssociativeOp(_, _, _, _)
LowerFullyAssociativeOp(gr, o, xs, newOps) ==
  LET name == gr.ops[o].hint
      g0 == [gr EXCEPT !.ops[o].hint = ""]
  IN IF Len(xs) = 1 THEN [g |-> g0, v |-> xs[1], newOps |-> newOps]
     ELSE LET firstHalf == Len(xs) \div 2
              l == IF Len(xs) = 2 THEN [g |-> g0, v |-> xs[1], newOps |-> newOps]
                   ELSE LowerFullyAssociativeOp(g0, o, SubSeq(xs, 1, firstHalf), newOps)
              r == IF Len(xs) = 2 THEN [g |-> l.g, v |-> xs[2], newOps |-> l.newOps]
                   ELSE LowerFullyAssociativeOp(l.g, o, SubSeq(xs, firstHalf + 1, Len(xs)),
                                                l.newOps)
              n == NewId(r.g)
              g1 == Create(r.g, [Proto(gr.ops[o].kind, <<l.v, r.v>>, 1)
                                   EXCEPT !.hint = name, !.two = gr.ops[o].two],
                           Before(o))
          IN [g |-> g1, v |-> Res(n), newOps |-> Append(r.newOps, n)]

\* APInt: values are kept modulo 2^Width; the top bit is the sign.
IsNegative(x) == x >= Pow2(Width - 1)
Negate(x) == (Pow2(Width) - x) % Pow2(Width)

\* Lines 305-307: erase the constant if it has no use left.
EraseIfUnused(gr, o) == IF UseEmpty(gr, o) THEN Erase(gr, o) ELSE gr

\* A rewriteAddWithNegativeConstant that subtracts the constant it was given.
RewriteAddKeepingConstant(gr, add, rhsCst) ==
  [g |-> EraseIfUnused(
           Erase(
             ReplaceAllUsesWith(
               Create(Create(gr, [Proto("const", <<>>, 1) EXCEPT !.val = gr.ops[rhsCst].val],
                             Before(add)),
                      Proto("sub", <<gr.ops[add].args[1], Res(NewId(gr))>>, 1), Before(add)),
               Res(add), Res(NewId(gr) + 1)),
             add),
           rhsCst),
   first |-> NewId(gr)]

\* rewriteAddWithNegativeConstant: the graph and the first operation emitted.
RewriteAddWithNegativeConstant(gr, add, rhsCst) ==
  LET negCst == NewId(gr)
  IN [g |-> EraseIfUnused(
              Erase(
                ReplaceAllUsesWith(
                  Create(Create(gr, [Proto("const", <<>>, 1)
                                       EXCEPT !.val = Negate(gr.ops[rhsCst].val)],
                                Before(add)),
                         [Proto("sub", <<gr.ops[add].args[1], Res(negCst)>>, 1)
                            EXCEPT !.two = gr.ops[add].two],
                         Before(add)),
                  Res(add), Res(negCst + 1)),
                add),
              rhsCst),
      first |-> negCst]

\* lowerStructExplodeOp, for results k.. of o.
RECURSIVE ExtractFrom(_, _, _)
ExtractFrom(gr, o, k) ==
  IF k > gr.ops[o].nres THEN gr
  ELSE ExtractFrom(
         ReplaceAllUsesWith(
           Create(gr, [Proto("extract", <<gr.ops[o].args[1]>>, 1) EXCEPT !.val = k],
                  Before(o)),
           <<o, k>>, Res(NewId(gr))),
         o, k + 1)
LowerStructExplodeOp(gr, o) ==
  [g |-> Erase(ExtractFrom(gr, o, 1), o), first |-> NewId(gr)]

\* findParentInNonProceduralRegion; ClimbProcedural is its while loop.
RECURSIVE ClimbProcedural(_, _)
ClimbProcedural(gr, p) ==
  IF IsProceduralBlock(gr, BlockOf(gr, p)) THEN ClimbProcedural(gr, ParentOp(gr, p)) ELSE p
FindParentInNonProceduralRegion(gr, o) == ClimbProcedural(gr, ParentOp(gr, o))

\* A rewriteSideEffectingExpr that finds every operation already rewritten.
RewriteSideEffectingExprNever(gr, o) == [g |-> gr, changed |-> FALSE]

\* Lines 374-375: builder.setInsertionPointAfter(op) and create.
CreateAfter(gr, proto, o) == Create(gr, proto, AfterOp(gr, o))

\* rewriteSideEffectingExpr: the graph and whether the op was rewritten.
RewriteSideEffectingExpr(gr, o) ==
  LET user == FirstUse(gr, o)[1]
      dest == gr.ops[user].args[1]
      parentOp == FindParentInNonProceduralRegion(gr, o)
      reg == NewId(gr)
  IN IF /\ HasOneUse(gr, o)
        /\ Kind(gr, user) = "bpassign"
        /\ ~IsPort(dest)
        /\ Kind(gr, DefOp(dest)) \in {"reg", "logic"}
     THEN [g |-> gr, changed |-> FALSE]
     ELSE [g |-> CreateAfter(
                   ReplaceAllUsesWith(
                     Create(Create(gr, Proto("reg", <<>>, 1), Before(parentOp)),
                            Proto("read", <<Res(reg)>>, 1), Before(parentOp)),
                     Res(o), Res(reg + 1)),
                   Proto("bpassign", <<Res(reg), Res(o)>>, 0), o),
           changed |-> TRUE]

\* hoistNonSideEffectExpr: the graph and whether the op was moved.
HoistNonSideEffectExpr(gr, o) ==
  LET args == gr.ops[o].args
      \* the lambda of llvm::any_of: the operand is defined in a procedural region
      inProc(v) == ~IsPort(v) /\ IsProceduralBlock(gr, BlockOf(gr, DefOp(v)))
      anyInProc == \E k \in 1..Len(args) : inProc(args[k])
      \* any_of stops at the first operand defined in a procedural region;
      \* cantHoist has been or-ed over the operands up to and including it.
      firstInProc == CHOOSE k \in 1..Len(args) :
                       inProc(args[k]) /\ \A j \in 1..(k - 1) : ~inProc(args[j])
      cantHoist == BlockOf(gr, DefOp(args[firstInProc])) = BlockOf(gr, o)
  IN IF IsExpressionAlwaysInline(gr, o) /\ ~(Kind(gr, o) = "read" \/ IsInOutTyped(gr, o))
     THEN [g |-> gr, changed |-> FALSE]
     ELSE IF anyInProc /\ cantHoist THEN [g |-> gr, changed |-> FALSE]
     ELSE IF anyInProc THEN [g |-> MoveBefore(gr, o, ParentOp(gr, o)), changed |-> TRUE]
     ELSE [g |-> MoveBefore(gr, o, FindParentInNonProceduralRegion(gr, o)), changed |-> TRUE]

\* isMovableDeclaration
IsMovableDeclaration(gr, o) ==
  gr.ops[o].nres = 1 /\ IsInOutTyped(gr, o) /\ Len(gr.ops[o].args) = 0

\* reuseExistingInOut.  ReuseScan is its loop over the uses: the single
\* top-level assign and the other uses, or ok = FALSE where the loop bails out.
RECURSIVE ReuseScan(_, _, _, _, _)
ReuseScan(gr, uses, k, assign, others) ==
  IF k > Len(uses) THEN [ok |-> TRUE, assign |-> assign, others |-> others]
  ELSE IF Kind(gr, uses[k][1]) = "assign"
  THEN IF assign # 0 \/ ParentOp(gr, uses[k][1]) # 0
       THEN [ok |-> FALSE, assign |-> 0, others |-> <<>>]
       ELSE ReuseScan(gr, uses, k + 1, uses[k][1], others)
  ELSE ReuseScan(gr, uses, k + 1, assign, Append(others, uses[k]))

RECURSIVE ReadDestAt(_, _, _, _)
ReadDestAt(gr, dest, others, k) ==
  IF k > Len(others) THEN gr
  ELSE ReadDestAt(SetOperand(Create(gr, Proto("read", <<dest>>, 1), Before(others[k][1])),
                             others[k][1], others[k][2], Res(NewId(gr))),
                  dest, others, k + 1)

\* Lines 580-582: the destination of the assign is lowered if always inline.
LowerDest(gr, dest) ==
  IF ~IsPort(dest) /\ IsExpressionAlwaysInline(gr, DefOp(dest))
  THEN LowerAlwaysInlineOperation(gr, DefOp(dest)) ELSE gr

\* Lines 558-583: what reuseExistingInOut does with the uses sc it has scanned.
ReuseScanned(gr, sc) ==
  LET dest == gr.ops[sc.assign].args[1]
      src == gr.ops[sc.assign].args[2]
  IN IF ~sc.ok \/ sc.assign = 0 \/ sc.others = <<>> THEN [g |-> gr, changed |-> FALSE]
     ELSE IF ~IsPort(src) /\ Kind(gr, DefOp(src)) = "const" THEN [g |-> gr, changed |-> FALSE]
     ELSE [g |-> LowerDest(ReadDestAt(gr, dest, sc.others, 1), dest), changed |-> TRUE]

\* A reuseExistingInOut that never finds an inout to reuse.
ReuseExistingInOutNever(gr, o) == [g |-> gr, changed |-> FALSE]

ReuseExistingInOut(gr, o) == ReuseScanned(gr, ReuseScan(gr, OpUses(gr, o), 1, 0, <<>>))

(***************************************************************************)
(* The body of the main loop of legalizeHWModule.  A context c is the      *)
(* state of one iteration on operation c.op: the graph, opIterator (it),   *)
(* visitedAlwaysInlineOperations, whether the iteration has ended          *)
(* (`continue`, done) or has returned failure (fail), and the rewrites     *)
(* applied (log).  Each step is one `if` of the loop body, in its order.   *)
(***************************************************************************)
Event(what, o, vals, newOps) == [what |-> what, op |-> o, vals |-> vals, newOps |-> newOps]
Note(c, what, vals, newOps) == Append(c.log, Event(what, c.op, vals, newOps))

\* Lines 694-699: an operation of an unknown dialect.
StepUnknownDialect(c) ==
  IF Kind(c.g, c.op) \notin KnownKinds
  THEN [c EXCEPT !.done = TRUE, !.fail = TRUE, !.log = Note(c, "unknown", <<>>, <<>>)]
  ELSE c

\* Lines 711-712.
SpillWiresIf(disallowed, gr, o) ==
  IF disallowed THEN SpillWiresForInstanceInputs(gr, o) ELSE gr

\* Lines 706-713: anchor the results and inputs of an instance.
StepInstance(c) ==
  IF c.done \/ Kind(c.g, c.op) # "instance" THEN c
  ELSE [c EXCEPT !.g = SpillWiresIf(c.opt.disallowExpressionInliningInPorts,
                                    LowerInstanceResults(c.g, c.op), c.op),
                 !.log = Note(c, "instance", c.g.ops[c.op].args, <<>>)]

\* Lines 717-724: hoist automatic logic out of a procedural region.
StepLogic(c) ==
  IF c.done \/ ~(c.proc /\ Kind(c.g, c.op) = "logic" /\ c.opt.disallowLocalVariables) THEN c
  ELSE [c EXCEPT !.g = MoveBefore(c.g, c.op, FindParentInNonProceduralRegion(c.g, c.op)),
                 !.log = Note(c, "hoistLogic", <<>>, <<>>)]

\* Lines 729-748: the lambda enforceWire, on operand k of the always op o.
EnforceWire(gr, o, k) ==
  LET expr == gr.ops[o].args[k]
      w == NewId(gr) IN
  IF IsSimpleReadOrPort(gr, expr) THEN gr
  ELSE IF Kind(gr, DefOp(expr)) = "instance" THEN gr
  ELSE LowerAlwaysInlineOperation(
         Create(ReplaceAllUsesWith(
                  Create(Create(gr, Proto("wire", <<>>, 1), AtBlockBegin(gr, 0)),
                         Proto("read", <<Res(w)>>, 1), Before(o)),
                  expr, Res(w + 1)),
                Proto("assign", <<Res(w), expr>>, 0), Before(o)),
         w + 1)

RECURSIVE EnforceWires(_, _, _)
EnforceWires(gr, o, k) ==
  IF k > Len(gr.ops[o].args) THEN gr ELSE EnforceWires(EnforceWire(gr, o, k), o, k + 1)

\* Lines 728-760: the clocks of sv.always, the clock and reset of sv.alwaysff.
StepEventControl(c) ==
  IF c.done \/ c.opt.allowExprInEventControl
     \/ Kind(c.g, c.op) \notin {"always", "alwaysff"} THEN c
  ELSE [c EXCEPT !.g = EnforceWires(c.g, c.op, 1), !.done = TRUE,
                 !.log = Note(c, "eventControl", c.g.ops[c.op].args, <<>>)]

\* Lines 783-784: `continue` if hoistNonSideEffectExpr (h) moved the operation.
Hoisted(c, h) ==
  IF h.changed
  THEN [c EXCEPT !.g = h.g, !.done = TRUE,
                 !.log = Note(c, "hoist", c.g.ops[c.op].args, <<BlockOf(c.g, c.op)>>)]
  ELSE c

\* Lines 771-784: `continue` if rewriteSideEffectingExpr (se) rewrote the
\* operation, else go on to hoistNonSideEffectExpr.
SideEffectRewritten(c, se) ==
  IF se.changed
  THEN [c EXCEPT !.g = se.g, !.done = TRUE, !.log = Note(c, "sideEffect", <<>>, <<>>)]
  ELSE Hoisted(c, HoistNonSideEffectExpr(c.g, c.op))

\* Lines 764-785: side-effect extraction and hoisting.
StepDisallowLocals(c) ==
  IF c.done \/ ~(c.opt.disallowLocalVariables /\ IsVerilogExpression(c.g, c.op) /\ c.proc)
  THEN c
  ELSE IF ~IsMemoryEffectFree(c.g, c.op)
  THEN SideEffectRewritten(c, RewriteSideEffectingExpr(c.g, c.op))
  ELSE Hoisted(c, HoistNonSideEffectExpr(c.g, c.op))

\* Lines 789-801: always-inline expressions.
StepAlwaysInline(c) ==
  IF c.done \/ ~IsExpressionAlwaysInline(c.g, c.op) THEN c
  ELSE IF UseEmpty(c.g, c.op)
  THEN [c EXCEPT !.g = Erase(c.g, c.op), !.done = TRUE,
                 !.log = Note(c, "eraseDead", <<>>, <<>>)]
  ELSE IF c.op \notin c.visited
  THEN [c EXCEPT !.g = LowerAlwaysInlineOperation(c.g, c.op), !.done = TRUE,
                 !.visited = @ \cup {c.op},
                 !.log = Note(c, "alwaysInline", <<>>, <<>>)]
  ELSE [c EXCEPT !.done = TRUE]

\* Lines 819-826: the operation is, after hoisting (h), in graph h.g.
SpillHoisted(c, h) ==
  IF ~h.changed THEN c
  ELSE IF ~IsProceduralBlock(h.g, BlockOf(h.g, c.op))
  THEN [c EXCEPT !.g = LowerUsersToTemporaryWire(h.g, c.op, FALSE), !.done = c.proc,
                 !.log = Note(c, "spill", c.g.ops[c.op].args, <<BlockOf(c.g, c.op)>>)]
  ELSE [c EXCEPT !.g = h.g, !.done = c.proc,
                 !.log = Note(c, "hoist", c.g.ops[c.op].args, <<BlockOf(c.g, c.op)>>)]

\* Lines 809-831: no existing inout is reused.
SpillNew(c) ==
  IF c.opt.disallowLocalVariables
  THEN IF c.proc THEN SpillHoisted(c, HoistNonSideEffectExpr(c.g, c.op))
       ELSE SpillHoisted(c, [g |-> c.g, changed |-> TRUE])
  ELSE [c EXCEPT !.g = LowerUsersToTemporaryWire(c.g, c.op, FALSE),
                 !.log = Note(c, "spill", OpUses(c.g, c.op), <<>>)]

\* Line 808: reuseExistingInOut (reuse) has been tried.
SpillUnlessReused(c, reuse) ==
  IF reuse.changed THEN [c EXCEPT !.g = reuse.g, !.log = Note(c, "reuse", <<>>, <<>>)]
  ELSE SpillNew(c)

\* Lines 804-832: spill to a temporary, reusing an existing inout if possible.
StepSpill(c) ==
  IF c.done \/ ~ShouldSpillWire(c.g, c.op) THEN c
  ELSE IF c.proc THEN SpillNew(c)
  ELSE SpillUnlessReused(c, ReuseExistingInOut(c.g, c.op))

\* Lines 839-846: the condition of operator-tree balancing.  Every attribute
\* of the model (sv.namehint, twoState) passes the attribute test.
IsBalanceable(gr, o) ==
  /\ Len(gr.ops[o].args) > 2
  /\ gr.ops[o].nres = 1
  /\ IsCommutative(gr, o)
  /\ IsMemoryEffectFree(gr, o)
  /\ Kind(gr, o) \notin RegionKinds

\* Lines 849-855: t is the balanced tree; the iterator goes back to the
\* first operation created.
Balanced(c, t) ==
  [c EXCEPT !.g = Erase(ReplaceAllUsesWith(t.g, Res(c.op), t.v), c.op),
            !.it = Head(t.newOps), !.done = TRUE,
            !.log = Note(c, "balance", c.g.ops[c.op].args, t.newOps)]

\* Lines 847-856.
StepBalance(c) ==
  IF c.done \/ ~IsBalanceable(c.g, c.op) THEN c
  ELSE Balanced(c, LowerFullyAssociativeOp(c.g, c.op, c.g.ops[c.op].args, <<>>))

\* Lines 865-866 and 874-875: the iterator goes back to the first operation
\* the rewrite r emitted.
Restarted(c, r, what, vals) ==
  [c EXCEPT !.g = r.g, !.it = r.first, !.done = TRUE,
            !.log = Note(c, what, vals, <<r.first, r.first + 1>>)]

\* Lines 859-868.
StepAddNegative(c) ==
  LET rhs == c.g.ops[c.op].args[2] IN
  IF c.done \/ Kind(c.g, c.op) # "add" THEN c
  ELSE IF IsPort(rhs) \/ Kind(c.g, DefOp(rhs)) # "const" THEN c
  ELSE IF ~IsNegative(c.g.ops[DefOp(rhs)].val) THEN c
  ELSE Restarted(c, RewriteAddWithNegativeConstant(c.g, c.op, DefOp(rhs)), "addNegative",
                 c.g.ops[c.op].args)

\* Lines 872-876.
StepStructExplode(c) ==
  IF c.done \/ Kind(c.g, c.op) # "explode" THEN c
  ELSE Restarted(c, LowerStructExplodeOp(c.g, c.op), "explode", <<>>)

\* Line 882: the result r of reuseExistingInOut is not looked at.
Reused(c, r) ==
  IF r.changed THEN [c EXCEPT !.g = r.g, !.log = Note(c, "reuseLate", <<>>, <<>>)] ELSE c

\* Lines 881-882.
StepSpeculativeReuse(c) ==
  IF c.done \/ c.proc \/ ~IsVerilogExpression(c.g, c.op) THEN c
  ELSE Reused(c, ReuseExistingInOut(c.g, c.op))

\* Lines 690-883: one iteration of the loop, on the operation at opIterator.
ScanBody(gr, options, f, lg) ==
  LET c0 == [g |-> gr, opt |-> options, op |-> f.it, it |-> NextOp(gr, f.it),
             proc |-> IsProceduralBlock(gr, f.blk), visited |-> f.visited,
             done |-> FALSE, fail |-> FALSE, log |-> lg]
  IN StepSpeculativeReuse(StepStructExplode(StepAddNegative(StepBalance(
       StepSpill(StepAlwaysInline(StepDisallowLocals(StepEventControl(
         StepLogic(StepInstance(StepUnknownDialect(c0)))))))))))

\* Lines 140-181: the always-inline operations that define operands of the
\* operations S, on which recursivelyHandleOperands calls
\* lowerAlwaysInlineOperation again.
AlwaysInlineOperandsOf(gr, S) ==
  {DefOp(v) : v \in {w \in UNION {{gr.ops[x].args[k] : k \in 1..Len(gr.ops[x].args)} : x \in S} :
                       ~IsPort(w) /\ IsExpressionAlwaysInline(gr, DefOp(w))}}
RECURSIVE AlwaysInlineReach(_, _)
AlwaysInlineReach(gr, S) ==
  IF AlwaysInlineOperandsOf(gr, S) \subseteq S THEN S
  ELSE AlwaysInlineReach(gr, S \cup AlwaysInlineOperandsOf(gr, S))
\* lowerAlwaysInlineOperation(o) calls itself on every always-inline operand
\* of o, or of the clone of o that has the operands of o: on a cycle of
\* always-inline operations, which a graph region may hold, it does not return.
RecursesForever(gr, o) ==
  \E x \in AlwaysInlineReach(gr, {o}) :
    x \in AlwaysInlineReach(gr, AlwaysInlineOperandsOf(gr, {x}))

\* Lines 690-785 of the iteration on f.it, and whether line 798 then calls a
\* lowerAlwaysInlineOperation that does not return.
ScanPrefix(gr, options, f, lg) ==
  StepDisallowLocals(StepEventControl(StepLogic(StepInstance(StepUnknownDialect(
    [g |-> gr, opt |-> options, op |-> f.it, it |-> NextOp(gr, f.it),
     proc |-> IsProceduralBlock(gr, f.blk), visited |-> f.visited,
     done |-> FALSE, fail |-> FALSE, log |-> lg])))))
ReachesEndlessLowering(c) ==
  /\ ~c.done /\ IsExpressionAlwaysInline(c.g, c.op)
  /\ ~UseEmpty(c.g, c.op) /\ c.op \notin c.visited
  /\ RecursesForever(c.g, c.op)
Hangs(gr, options, f, lg) == ReachesEndlessLowering(ScanPrefix(gr, options, f, lg))

\* Lines 885-910: move the logic operations of a procedural block to the
\* insertion point <<blk, ip>>; s is what is left of the early-inc walk.
RECURSIVE MoveLogicOps(_, _, _, _)
MoveLogicOps(gr, o, blk, ip) ==
  IF o = 0 THEN gr
  ELSE LET nxt == NextOp(gr, o) IN
       IF Kind(gr, o) # "logic" THEN MoveLogicOps(gr, nxt, blk, ip)
       ELSE IF ip = o THEN MoveLogicOps(gr, nxt, blk, NextOp(gr, o))
       ELSE MoveLogicOps(Place(Detach(gr, o), o, IF ip = 0 THEN AtEnd(blk) ELSE Before(ip)),
                         nxt, blk, ip)

\* A procedural tail that leaves the logic declarations where they are.
LegalizeProceduralTailSkipped(gr, b) == gr

LegalizeProceduralTail(gr, b) ==
  IF gr.order[b] = <<>> THEN gr
  ELSE LET p == FindLogicOpInsertionPoint(gr, FrontOp(gr, b))
       IN MoveLogicOps(gr, FrontOp(gr, b), p[1], p[2])

\* Lines 918-969: one iteration of the use-before-def loop, on operation o.
HaveAnyOutOfOrderUses(gr, b, o, seen) ==
  \E u \in Users(gr, o) : AncestorIn(gr, b, u) \in seen

\* A use-before-def loop that leaves every operation where it is.
UseBeforeDefSkipped(gr, b, o, seen) == gr

\* Lines 949 and 960: moveBefore(&block.front()).
MoveToFront(gr, o, b) == MoveBefore(gr, o, FrontOp(gr, b))

UseBeforeDefBody(gr, b, o, seen) ==
  LET def == DefOp(gr.ops[o].args[1]) IN
  IF ~HaveAnyOutOfOrderUses(gr, b, o, seen) THEN gr
  ELSE IF IsMovableDeclaration(gr, o) THEN MoveBefore(gr, o, FrontOp(gr, b))
  ELSE IF IsConstantExpression(gr, o) THEN MoveBefore(gr, o, FrontOp(gr, b))
  ELSE IF Kind(gr, o) = "read" /\ def # 0 /\ IsMovableDeclaration(gr, def)
  THEN MoveToFront(MoveBefore(gr, o, FrontOp(gr, b)), def, b)
  ELSE LowerUsersToTemporaryWire(gr, o, TRUE)

(***************************************************************************)
(* EmittedExpressionStateManager: the memoized cost estimate and the       *)
(* spilling heuristics of the prettification pass.  m is expressionStates. *)
(***************************************************************************)
\* An estimate that takes every value for a leaf.
GetExpressionStateOfLeaf(gr, m, v) ==
  [size |-> 1, memo |-> IF IsPort(v) THEN m ELSE (v :> 1) @@ m]

\* getExpressionState, with visitUnhandledExpr and mergeOperandsStates (the
\* running sum acc over operands k..): the size and the updated cache.
RECURSIVE GetExpressionState(_, _, _), MergeOperandsStates(_, _, _, _, _)
GetExpressionState(gr, m, v) ==
  IF v \in DOMAIN m THEN [size |-> m[v], memo |-> m]
  ELSE IF IsPort(v) THEN [size |-> 1, memo |-> m]
  ELSE LET r == IF Len(gr.ops[DefOp(v)].args) = 0 THEN [size |-> 1, memo |-> m]
                ELSE MergeOperandsStates(gr, m, DefOp(v), 1, 0)
       IN [size |-> r.size, memo |-> (v :> r.size) @@ r.memo]

MergeOperandsStates(gr, m, o, k, acc) ==
  IF k > Len(gr.ops[o].args) THEN [size |-> acc, memo |-> m]
  ELSE LET r == GetExpressionState(gr, m, gr.ops[o].args[k])
       IN MergeOperandsStates(gr, r.memo, o, k + 1, acc + r.size)

\* StringRef::startswith("_") on the name hints of the model.
HasInternalPrefix(h) == h \in {"_t", "_GEN", "_inst"}

\* dispatchHeuristic: the decision and the updated cache.
DispatchHeuristic(gr, options, m, o) ==
  LET st == GetExpressionState(gr, m, Res(o)) IN
  IF ~options.spillLargeTermsWithNamehints \/ gr.ops[o].hint = ""
  THEN [spill |-> FALSE, memo |-> m]
  ELSE IF ~HasInternalPrefix(gr.ops[o].hint) THEN [spill |-> TRUE, memo |-> m]
  ELSE [spill |-> st.size >= options.wireSpillingNamehintTermLimit, memo |-> st.memo]

\* shouldSpillWireBasedOnState: the decision and the updated cache.
ShouldSpillWireBasedOnState(gr, options, m, o) ==
  LET singleUser == FirstUse(gr, o)[1]
      st == GetExpressionState(gr, m, Res(o))
  IN IF gr.ops[o].nres = 0 \/ IsInOutTyped(gr, o) \/ Kind(gr, o) \in {"read", "const"}
     THEN [spill |-> FALSE, memo |-> m]
     ELSE IF HasOneUse(gr, o)
             /\ \/ Kind(gr, singleUser) \in {"output", "assign", "bpassign", "instance"}
                \/ /\ HasOneUse(gr, singleUser)
                   /\ Kind(gr, singleUser) = "bitcast"
                   /\ Kind(gr, FirstUse(gr, singleUser)[1]) \in {"output", "assign", "bpassign"}
     THEN [spill |-> FALSE, memo |-> m]
     ELSE IF options.maximumNumberOfTermsPerExpression < st.size
     THEN [spill |-> TRUE, memo |-> st.memo]
     ELSE DispatchHeuristic(gr, options, st.memo, o)

(***************************************************************************)
(* The inputs: modules and option settings the pass is run on.             *)
(***************************************************************************)
Hinted(proto, h) == [proto EXCEPT !.hint = h]
Valued(proto, x) == [proto EXCEPT !.val = x]
TwoState(proto) == [proto EXCEPT !.two = TRUE]

RECURSIVE SortedUses(_)
SortedUses(S) ==
  IF S = {} THEN <<>>
  ELSE LET m == CHOOSE x \in S :
                  \A y \in S : y[1] < x[1] \/ (y[1] = x[1] /\ y[2] <= x[2])
       IN <<m>> \o SortedUses(S \ {m})

\* The graph of operations protos laid out as order says, as a builder that
\* creates the operations in the order of their numbers leaves it.
Build(protos, order) ==
  LET n == Len(protos)
      usesOf(v) == UNION {{<<u, k>> : k \in {j \in 1..Len(protos[u].args) :
                                                 protos[u].args[j] = v}} : u \in 1..n}
  IN [ops |-> TupleOf([o \in 1..n |->
                 [protos[o] EXCEPT
                    !.blk = CHOOSE b \in 0..n : InSeq(order[b], o),
                    !.ru = TupleOf([i \in 1..protos[o].nres |->
                                     SortedUses(usesOf(<<o, i>>))], protos[o].nres)]], n),
      order |-> order]

Layout(n, top, sub) == [b \in 0..n |-> IF b = 0 THEN top ELSE IF b \in DOMAIN sub THEN sub[b] ELSE <<>>]

Perms(S) == {p \in [1..Cardinality(S) -> S] : \A i, j \in 1..Cardinality(S) : i # j => p[i] # p[j]}

Options(dlv, deip, aeec, maxT, heur, lim) ==
  [disallowLocalVariables : dlv,
   disallowExpressionInliningInPorts : deip,
   allowExprInEventControl : aeec,
   maximumNumberOfTermsPerExpression : maxT,
   spillLargeTermsWithNamehints : heur,
   wireSpillingNamehintTermLimit : lim]
\* The default of LoweringOptions for the prettification pass.
DefaultTerms == {100}
DefaultLimit == {3}
\* Settings under which the expressions of the model reach the thresholds.
SmallTerms == {0, 1, 2}
SmallLimits == {2, 3}

\* A wire read, summed and assigned back, in any order of the module body.
OrderModules ==
  {Build(<<Proto("wire", <<>>, 1),
           Proto("read", <<Res(1)>>, 1),
           Proto("add", <<Port(1), Res(2)>>, 1),
           Proto("add", <<Res(3), Res(3)>>, 1),
           Proto("assign", <<Res(1), Res(4)>>, 0),
           Proto("output", <<Res(4)>>, 0)>>,
         Layout(6, p \o <<6>>, <<>>)) : p \in Perms(1..5)}

\* A module-level expression used by an if nested in an always block: by its
\* condition and an assignment (c = the expression) or by the assignment only.
NestedUseModules ==
  {Build(<<Proto("add", <<Port(1), Port(2)>>, 1),
           Proto("reg", <<>>, 1),
           Proto("always", <<Port(3)>>, 0),
           Proto("if", <<c>>, 0),
           Proto("bpassign", <<Res(2), Res(1)>>, 0),
           Proto("output", <<>>, 0)>>,
         Layout(6, p \o <<6>>, (3 :> <<4>> @@ 4 :> <<5>>))) :
     p \in Perms(1..3), c \in {Res(1), Port(1)}}

\* Side-effecting expressions in procedural regions.
SideEffectModules ==
  { \* already in the legal form
    Build(<<Proto("reg", <<>>, 1), Proto("always", <<Port(1)>>, 0),
            Proto("se", <<Port(2)>>, 1), Proto("bpassign", <<Res(1), Res(3)>>, 0),
            Proto("output", <<>>, 0)>>,
          Layout(5, <<1, 2, 5>>, (2 :> <<3, 4>>))),
    \* used twice by an expression
    Build(<<Proto("reg", <<>>, 1), Proto("always", <<Port(1)>>, 0),
            Proto("se", <<Port(2)>>, 1), Proto("xor", <<Res(3), Res(3)>>, 1),
            Proto("bpassign", <<Res(1), Res(4)>>, 0), Proto("output", <<>>, 0)>>,
          Layout(6, <<1, 2, 6>>, (2 :> <<3, 4, 5>>))),
    \* nested two regions deep
    Build(<<Proto("reg", <<>>, 1), Proto("always", <<Port(1)>>, 0),
            Proto("if", <<Port(1)>>, 0), Proto("se", <<Port(2)>>, 1),
            Proto("bpassign", <<Res(1), Res(4)>>, 0), Proto("output", <<>>, 0)>>,
          Layout(6, <<1, 2, 6>>, (2 :> <<3>> @@ 3 :> <<4, 5>>))),
    \* unused
    Build(<<Proto("reg", <<>>, 1), Proto("always", <<Port(1)>>, 0),
            Proto("se", <<Port(2)>>, 1), Proto("output", <<>>, 0)>>,
          Layout(4, <<1, 2, 4>>, (2 :> <<3>>))),
    \* fed by an expression of its own block, assigned to a logic
    Build(<<Proto("reg", <<>>, 1), Proto("always", <<Port(1)>>, 0),
            Proto("logic", <<>>, 1), Proto("xor", <<Port(1), Port(2)>>, 1),
            Proto("se", <<Res(4)>>, 1), Proto("bpassign", <<Res(3), Res(5)>>, 0),
            Proto("output", <<>>, 0)>>,
          Layout(7, <<1, 2, 7>>, (2 :> <<3, 4, 5, 6>>))),
    \* fed by a constant of its own block, used twice
    Build(<<Proto("reg", <<>>, 1), Proto("always", <<Port(1)>>, 0),
            Valued(Proto("const", <<>>, 1), 1), Proto("se", <<Res(3)>>, 1),
            Proto("xor", <<Res(4), Res(4)>>, 1), Proto("bpassign", <<Res(1), Res(5)>>, 0),
            Proto("output", <<>>, 0)>>,
          Layout(7, <<1, 2, 7>>, (2 :> <<3, 4, 5, 6>>))) }

\* Automatic logic in a wrapper (k) nested in an always block, and an
\* expression that has to be spilled there.
LogicModules ==
  {Build(<<Proto("reg", <<>>, 1), Proto("always", <<Port(1)>>, 0),
           Proto("bpassign", <<Res(1), Port(2)>>, 0),
           Proto(k, IF k = "if" THEN <<Port(1)>> ELSE <<>>, 0),
           Proto("logic", <<>>, 1), Proto("bpassign", <<Res(1), Port(2)>>, 0),
           Proto("read", <<Res(5)>>, 1), Proto("screate", <<Res(7)>>, 1),
           Proto("xor", <<Res(8), Res(8)>>, 1), Proto("bpassign", <<Res(5), Res(9)>>, 0),
           Proto("output", <<>>, 0)>>,
         Layout(11, <<1, 2, 11>>, (2 :> <<3, 4>> @@ 4 :> inner))) :
     k \in {"ifdefproc", "if"},
     inner \in {<<5, 6, 7, 8, 9, 10>>, <<6, 5, 7, 8, 9, 10>>}}
  \cup
  \* a wrapper in a wrapper
  {Build(<<Proto("reg", <<>>, 1), Proto("initial", <<>>, 0),
           Proto("bpassign", <<Res(1), Port(2)>>, 0),
           Proto("ifdefproc", <<>>, 0), Proto("ifdefproc", <<>>, 0),
           Proto("bpassign", <<Res(1), Port(1)>>, 0), Proto("logic", <<>>, 1),
           Proto("bpassign", <<Res(7), Port(2)>>, 0), Proto("output", <<>>, 0)>>,
         Layout(9, <<1, 2, 9>>, (2 :> <<3, 4>> @@ 4 :> <<5>> @@ 5 :> <<6, 7, 8>>)))}

\* A variadic commutative node of n operands.
Operand(i) == IF i % 4 = 2 THEN Res(1) ELSE Port((i % 3) + 1)
BalanceModules ==
  {Build(<<Valued(Proto("const", <<>>, 1), 1),
           [Proto(k, TupleOf([i \in 1..n |-> Operand(i)], n), 1) EXCEPT !.hint = h, !.two = t],
           Proto("output", outs, 0)>>,
         Layout(3, <<1, 2, 3>>, <<>>)) :
     n \in 3..MaxOperands, k \in {"add", "mul", "and", "xor"}, h \in {"", "n"},
     t \in BOOLEAN,
     outs \in {<<Res(2)>>, <<Res(2), Res(2)>>}}

\* An operation of an unknown dialect at the module level (z), in an always
\* block (x), in an if inside it (y), or nowhere.
Foreign(isForeign, benign) == IF isForeign THEN Proto("foreign", <<Port(2)>>, 0) ELSE benign
ForeignModules ==
  {Build(<<Proto("reg", <<>>, 1), Valued(Proto("const", <<>>, 1), 1),
           Proto("add", <<Port(1), Res(2), Port(2)>>, 1),
           Proto("always", <<Port(1)>>, 0),
           Foreign(x, Proto("bpassign", <<Res(1), Port(2)>>, 0)),
           Proto("if", <<Port(1)>>, 0),
           Foreign(y, Proto("bpassign", <<Res(1), Port(1)>>, 0)),
           Foreign(z, Proto("reg", <<>>, 1)),
           Proto("output", <<Res(3)>>, 0)>>,
         Layout(9, top, (4 :> <<5, 6>> @@ 6 :> <<7>>))) :
     x \in BOOLEAN, y \in BOOLEAN, z \in BOOLEAN,
     top \in {<<1, 2, 3, 4, 8, 9>>, <<8, 1, 2, 3, 4, 9>>}}
  \cup
  \* A read of an indexed wire that feeds the output, in either order of
  \* the graph region, with an operation in between.
  {Build(<<Proto("wire", <<>>, 1),
           Proto("idx", <<Res(1), Port(1)>>, 1),
           Proto("read", <<Res(2)>>, 1),
           Foreign(x, Proto("reg", <<>>, 1)),
           Proto("output", <<Res(3)>>, 0)>>,
         Layout(5, top, <<>>)) :
     x \in BOOLEAN, top \in {<<1, 2, 3, 4, 5>>, <<1, 3, 2, 4, 5>>}}

\* Always-inline nodes: a constant with five uses, one of them nested; a read
\* of an indexed wire; a dead constant.
AlwaysInlineModules ==
  {Build(<<Valued(Proto("const", <<>>, 1), 1),
           Proto("add", <<Res(1), Res(1)>>, 1),
           Proto("xor", <<Port(1), Res(1)>>, 1),
           Proto("wire", <<>>, 1),
           Proto("idx", <<Res(4), Res(1)>>, 1),
           Proto("read", <<Res(5)>>, 1),
           Proto("add", <<Res(6), Res(6)>>, 1),
           Valued(Proto("const", <<>>, 1), 2),
           Proto("reg", <<>>, 1),
           Proto("always", <<Port(1)>>, 0),
           Proto("bpassign", <<Res(9), Res(1)>>, 0),
           Proto("output", <<Res(2), Res(3), Res(7)>>, 0)>>,
         Layout(12, top, (10 :> <<11>>))) :
     top \in {<<1, 2, 3, 4, 5, 6, 7, 8, 9, 10, 12>>,
              <<10, 9, 8, 7, 6, 5, 4, 3, 2, 1, 12>>,
              <<2, 3, 7, 1, 8, 4, 6, 5, 9, 10, 12>>}}

\* An instance with two inputs and two results.  ins are its inputs; s7
\* feeds an assign, s8 an expression, outs the module outputs.
InstanceModules ==
  {Build(<<Valued(Proto("const", <<>>, 1), 1),
           Proto("wire", <<>>, 1),
           Proto("read", <<Res(2)>>, 1),
           Proto("add", <<Port(1), Port(2)>>, 1),
           Proto("instance", ins, 2),
           Proto("wire", <<>>, 1),
           Proto("assign", <<Res(6), u[1]>>, 0),
           Proto("xor", <<u[2], Port(2)>>, 1),
           Proto("output", <<u[3], u[4]>>, 0)>>,
         Layout(9, top, <<>>)) :
     ins \in {<<Res(1), Res(4)>>, <<Res(3), Port(1)>>, <<Res(4), Res(4)>>, <<Port(2), Res(1)>>,
              << <<5, 2>>, Port(1) >>},
     u \in {<< <<5, 1>>, Port(1), <<5, 2>>, Res(8) >>,
            << Port(1), <<5, 1>>, <<5, 1>>, <<5, 2>> >>,
            << <<5, 1>>, <<5, 1>>, Res(8), Port(1) >>,
            << Port(1), <<5, 2>>, Res(8), Port(1) >>,
            << <<5, 1>>, Port(1), <<5, 1>>, <<5, 2>> >>},
     top \in {<<1, 2, 3, 4, 5, 6, 7, 8, 9>>, <<1, 2, 3, 4, 6, 7, 5, 8, 9>>,
              <<8, 7, 6, 5, 4, 3, 2, 1, 9>>}}
  \cup
  \* an instance fed by a constant after a read that precedes the indexing
  \* it reads; an instance inside an ifdef, its result used outside
  {Build(<<Valued(Proto("const", <<>>, 1), 1),
           Proto("wire", <<>>, 1),
           Proto("read", <<Res(4)>>, 1),
           Proto("idx", <<Res(2), Port(1)>>, 1),
           Proto("instance", <<Res(1)>>, 1),
           Proto("output", <<Res(3), Res(5)>>, 0)>>,
         Layout(6, top, <<>>)) :
     top \in {<<1, 2, 3, 4, 5, 6>>, <<1, 2, 4, 3, 5, 6>>}}
  \cup
  {Build(<<Valued(Proto("const", <<>>, 1), 1),
           Proto("ifdef", <<>>, 0),
           Proto("instance", <<Res(1), Port(1)>>, 1),
           Proto("xor", <<Res(3), Port(2)>>, 1),
           Proto("output", <<Res(4)>>, 0)>>,
         Layout(5, <<1, 2, 4, 5>>, (2 :> <<3>>)))}
  \cup
  \* the single use of a result is an assign inside an ifdef
  {Build(<<Proto("instance", <<Port(1)>>, 1), Proto("wire", <<>>, 1),
           Proto("ifdef", <<>>, 0), Proto("assign", <<Res(2), Res(1)>>, 0),
           Proto("output", <<>>, 0)>>,
         Layout(5, <<1, 2, 3, 5>>, (3 :> <<4>>)))}

\* A struct_explode of two fields.
ExplodeModules ==
  {Build(<<Proto("explode", <<Port(1)>>, 2),
           Proto("xor", <<<<1, 1>>, <<1, 2>>>>, 1),
           Proto("output", <<<<1, 1>>, Res(2)>>, 0)>>,
         Layout(3, top, <<>>)) : top \in {<<1, 2, 3>>, <<2, 1, 3>>}}

\* Expressions in the event control of always and always_ff.
EventControlModules ==
  {Build(<<Proto("xor", <<Port(1), Port(2)>>, 1), Proto("reg", <<>>, 1),
           Proto("always", clocks, 0), Proto("bpassign", <<Res(2), Res(1)>>, 0),
           Proto("wire", <<>>, 1), Proto("read", <<Res(5)>>, 1),
           Proto("alwaysff", <<Res(6), Res(1)>>, 0),
           Proto("bpassign", <<Res(2), Port(1)>>, 0),
           Proto("output", <<Res(1)>>, 0)>>,
         Layout(9, top, (3 :> <<4>> @@ 7 :> <<8>>))) :
     clocks \in {<<Res(1)>>, <<Res(1), Port(3)>>, <<Port(3)>>},
     top \in {<<1, 2, 3, 5, 6, 7, 9>>, <<2, 3, 5, 6, 7, 1, 9>>}}
  \cup
  \* an always after a read that is defined before its operand
  {Build(<<Proto("wire", <<>>, 1), Proto("read", <<Res(3)>>, 1),
           Proto("idx", <<Res(1), Port(1)>>, 1), Proto("xor", <<Port(1), Port(2)>>, 1),
           Proto("reg", <<>>, 1), Proto("always", <<Res(4)>>, 0),
           Proto("bpassign", <<Res(5), Port(1)>>, 0), Proto("output", <<Res(2)>>, 0)>>,
         Layout(8, top, (6 :> <<7>>))) :
     top \in {<<1, 4, 5, 2, 3, 6, 8>>, <<1, 4, 5, 3, 2, 6, 8>>}}

\* a + c for every constant c, declared before or after the add.
AddConstantModules ==
  {Build(<<Valued(Proto("const", <<>>, 1), c),
           [Proto("add", <<lhs, Res(1)>>, 1) EXCEPT !.two = t],
           Proto("output", outs, 0)>>,
         Layout(3, top, <<>>)) :
     c \in 0..(Pow2(Width) - 1), t \in BOOLEAN, lhs \in {Port(1), Res(1)},
     top \in {<<1, 2, 3>>, <<2, 1, 3>>},
     outs \in {<<Res(2)>>, <<Res(2), Res(1)>>, <<Res(2), Res(2)>>}}

\* Expressions of procedural regions that disallowLocalVariables hoists.
HoistModules ==
  {Build(<<Proto("reg", <<>>, 1), Proto("always", <<Port(1)>>, 0),
           Proto("xor", <<Port(1), Port(2)>>, 1), Proto("if", <<Res(3)>>, 0),
           Proto("xor", <<Res(3), Port(1)>>, 1), Proto("xor", <<Port(1), Port(2)>>, 1),
           Valued(Proto("const", <<>>, 1), 1), Proto("sub", m, 1),
           Proto("bpassign", <<Res(1), Res(5)>>, 0),
           Proto("bpassign", <<Res(1), Res(6)>>, 0),
           Proto("bpassign", <<Res(1), Res(8)>>, 0),
           Proto("output", <<>>, 0)>>,
         Layout(12, <<1, 2, 12>>, (2 :> <<3, 4>> @@ 4 :> <<5, 6, 7, 8, 9, 10, 11>>))) :
     m \in {<<Res(3), Res(6)>>, <<Res(3), Res(7)>>, <<Res(7), Res(3)>>, <<Res(6), Port(1)>>}}

\* An expression e (an add or a constant) connected into a wire or into an
\* element of it, at top level or inside an ifdef, with up to three more
\* uses, one of them a second Connection.
ReuseModules ==
  {Build(<<Proto("wire", <<>>, 1),
           Proto("wire", <<>>, 1),
           Proto("ifdef", <<>>, 0),
           e,
           Proto("assign", <<dest, Res(4)>>, 0),
           Proto("assign", <<Res(2), sec>>, 0),
           Proto("xor", <<a, Port(2)>>, 1),
           Proto("output", <<b, Res(7)>>, 0),
           Proto("idx", <<Res(1), Port(1)>>, 1)>>,
         lay) :
     e \in {Proto("add", <<Port(1), Port(2)>>, 1), Valued(Proto("const", <<>>, 1), 1)},
     dest \in {Res(1), Res(9)}, sec \in {Res(4), Port(1)},
     a \in {Res(4), Port(1)}, b \in {Res(4), Port(2)},
     lay \in {Layout(9, <<1, 2, 9, 3, 4, 5, 6, 7, 8>>, <<>>),
              Layout(9, <<1, 2, 9, 3, 4, 6, 7, 8>>, (3 :> <<5>>)),
              Layout(9, <<1, 2, 9, 3, 5, 6, 7, 4, 8>>, <<>>)}}

\* An expression e of cost 2, with or without a name hint, whose only use is
\* an assign, an instance, a bpassign, an and (itself multiplied) or the output, directly or
\* through a bitcast (a second wire stands where no bitcast is); and an
\* element of a wire that is assigned.
PrettifyModules ==
  {Build(<<Proto("wire", <<>>, 1),
           Hinted(Proto("xor", <<Port(1), Port(2)>>, 1), h),
           IF v = Res(3) THEN Proto("bitcast", <<Res(2)>>, 1) ELSE Proto("wire", <<>>, 1),
           Proto("assign", <<Res(1), IF at = 4 THEN v ELSE Port(1)>>, 0),
           Proto("instance", <<IF at = 5 THEN v ELSE Port(1)>>, 0),
           Proto("always", <<Port(1)>>, 0),
           Proto("bpassign", <<Res(1), IF at = 7 THEN v ELSE Port(1)>>, 0),
           Proto("and", <<IF at = 8 THEN v ELSE Port(1), Port(2)>>, 1),
           Proto("mul", <<Res(8), Port(1)>>, 1),
           Proto("output", <<IF at = 10 THEN v ELSE Port(1), Res(9)>>, 0),
           Proto("idx", <<Res(1), Port(1)>>, 1),
           Proto("assign", <<Res(11), Port(2)>>, 0)>>,
         Layout(12, <<1, 2, 3, 4, 5, 6, 8, 9, 11, 12, 10>>, (6 :> <<7>>))) :
     h \in {"", "x", "_t"}, v \in {Res(2), Res(3)}, at \in {4, 5, 7, 8, 10}}

\* An element of a wire selected by a read of that very element: two
\* always-inline operations that are each other's operand.
CyclicModules ==
  {Build(<<Proto("wire", <<>>, 1), Proto("idx", <<Res(1), Res(3)>>, 1),
           Proto("read", <<Res(2)>>, 1), Proto("output", <<Res(3)>>, 0)>>,
         Layout(4, top, <<>>)) :
     top \in {<<1, 2, 3, 4>>, <<1, 3, 2, 4>>}}

Inputs ==
  (OrderModules \X Options(BOOLEAN, {FALSE}, {TRUE}, DefaultTerms, {FALSE}, DefaultLimit))
  \cup ((NestedUseModules \cup SideEffectModules \cup LogicModules \cup HoistModules)
        \X Options(BOOLEAN, {FALSE}, BOOLEAN, DefaultTerms, {FALSE}, DefaultLimit))
  \cup ((BalanceModules \cup AddConstantModules \cup ExplodeModules \cup ReuseModules)
        \X Options({FALSE}, {FALSE}, {TRUE}, DefaultTerms, {FALSE}, DefaultLimit))
  \cup ((ForeignModules \cup AlwaysInlineModules \cup EventControlModules)
        \X Options(BOOLEAN, {FALSE}, BOOLEAN, DefaultTerms, {FALSE}, DefaultLimit))
  \cup (InstanceModules \X Options({FALSE}, BOOLEAN, {TRUE}, DefaultTerms, {FALSE}, DefaultLimit))
  \cup (CyclicModules \X Options({FALSE}, {FALSE}, {TRUE}, DefaultTerms, {FALSE}, DefaultLimit))
  \cup (PrettifyModules \X Options({FALSE}, {FALSE}, {TRUE}, SmallTerms, BOOLEAN, SmallLimits))

(***************************************************************************)
(* The state machine: prepareHWModule and the activations of               *)
(* legalizeHWModule.                                                       *)
(***************************************************************************)
Frame(gr, b) ==
  [blk |-> b, phase |-> "nested", it |-> FrontOp(gr, b), visited |-> {}, seen |-> {}]

Top == stack[Len(stack)]
SetTop(f) == [stack EXCEPT ![Len(stack)] = f]
Pop == SubSeq(stack, 1, Len(stack) - 1)

Init ==
  \E i \in Inputs :
    /\ g = i[1]
    /\ opt = i[2]
    /\ input = i[1]
    /\ stack = <<Frame(i[1], 0)>>
    /\ mode = "legalize"
    /\ run = 1
    /\ firstOut = i[1]
    /\ memo = << >>
    /\ log = << >>

\* Lines 672-679: the walk over the nested regions; an operation without one.
NestedSkip ==
  /\ mode = "legalize" /\ Top.phase = "nested" /\ Top.it # 0
  /\ Kind(g, Top.it) \notin RegionKinds
  /\ stack' = SetTop([Top EXCEPT !.it = NextOp(g, Top.it)])
  /\ UNCHANGED <<g, opt, mode, run, input, firstOut, memo, log>>

\* Lines 674-677: the recursive call on the region of the operation.
NestedDescend ==
  /\ mode = "legalize" /\ Top.phase = "nested" /\ Top.it # 0
  /\ Kind(g, Top.it) \in RegionKinds
  /\ stack' = Append(stack, Frame(g, Top.it))
  /\ UNCHANGED <<g, opt, mode, run, input, firstOut, memo, log>>

\* Lines 684-690: the nested regions are done; the main loop starts.
BeginScan ==
  /\ mode = "legalize" /\ Top.phase = "nested" /\ Top.it = 0
  /\ stack' = SetTop([Top EXCEPT !.phase = "scan", !.it = FrontOp(g, Top.blk)])
  /\ UNCHANGED <<g, opt, mode, run, input, firstOut, memo, log>>

\* The iteration whose outcome is c went on to the next operation.
Continued(c) ==
  /\ ~c.fail
  /\ g' = c.g
  /\ log' = c.log
  /\ stack' = SetTop([Top EXCEPT !.it = c.it, !.visited = c.visited])

\* The iteration whose outcome is c returned failure.
Failed(c) == c.fail /\ log' = c.log

\* Lines 690-883: one iteration of the main loop.
ScanStep ==
  /\ mode = "legalize" /\ Top.phase = "scan" /\ Top.it # 0
  /\ ~Hangs(g, opt, Top, log)
  /\ Continued(ScanBody(g, opt, Top, log))
  /\ UNCHANGED <<opt, mode, run, input, firstOut, memo>>

\* Lines 694-699, 676-677 and 980-981: failure unwinds every activation.
ScanFail ==
  /\ mode = "legalize" /\ Top.phase = "scan" /\ Top.it # 0
  /\ ~Hangs(g, opt, Top, log)
  /\ Failed(ScanBody(g, opt, Top, log))
  /\ stack' = << >>
  /\ mode' = "failed"
  /\ UNCHANGED <<g, opt, run, input, firstOut, memo>>

\* Line 798: the iteration enters a lowerAlwaysInlineOperation that recurses
\* without end; the scan stays in it.
ScanHang ==
  /\ mode = "legalize" /\ Top.phase = "scan" /\ Top.it # 0
  /\ Hangs(g, opt, Top, log)
  /\ stack' = SetTop([Top EXCEPT !.phase = "recursing"])
  /\ UNCHANGED <<g, opt, mode, run, input, firstOut, memo, log>>

\* The return of an activation to its caller (lines 676 and 980).
ReturnTo(gr) ==
  IF Len(stack) = 1
  THEN /\ stack' = << >>
       /\ mode' = "legalized"
       /\ firstOut' = IF run = 1 THEN gr ELSE firstOut
  ELSE /\ stack' = [Pop EXCEPT ![Len(stack) - 1].it = NextOp(gr, @)]
       /\ mode' = mode
       /\ firstOut' = firstOut

\* Lines 885-910: the end of the main loop of a procedural block.
FinishProcedural ==
  /\ mode = "legalize" /\ Top.phase = "scan" /\ Top.it = 0
  /\ IsProceduralBlock(g, Top.blk)
  /\ g' = LegalizeProceduralTail(g, Top.blk)
  /\ ReturnTo(g')
  /\ UNCHANGED <<opt, run, input, memo, log>>

\* Lines 912-918: the end of the main loop of a graph block.
BeginUseBeforeDef ==
  /\ mode = "legalize" /\ Top.phase = "scan" /\ Top.it = 0
  /\ ~IsProceduralBlock(g, Top.blk)
  /\ stack' = SetTop([Top EXCEPT !.phase = "ubd", !.it = FrontOp(g, Top.blk)])
  /\ UNCHANGED <<g, opt, mode, run, input, firstOut, memo, log>>

\* Lines 918-969: one iteration of the use-before-def loop.
UseBeforeDefStep ==
  /\ mode = "legalize" /\ Top.phase = "ubd" /\ Top.it # 0
  /\ g' = UseBeforeDefBody(g, Top.blk, Top.it, Top.seen)
  /\ stack' = SetTop([Top EXCEPT !.it = NextOp(g, Top.it), !.seen = @ \cup {Top.it}])
  /\ log' = IF g' = g THEN log ELSE Append(log, Event("useBeforeDef", Top.it, <<>>, <<>>))
  /\ UNCHANGED <<opt, mode, run, input, firstOut, memo>>

\* Line 970.
FinishGraph ==
  /\ mode = "legalize" /\ Top.phase = "ubd" /\ Top.it = 0
  /\ ReturnTo(g)
  /\ UNCHANGED <<g, opt, run, input, memo, log>>

\* legalizeHWModule run again on its own output.
Relegalize ==
  /\ mode = "legalized" /\ run < MaxRuns
  /\ run' = run + 1
  /\ mode' = "legalize"
  /\ stack' = <<Frame(g, 0)>>
  /\ log' = << >>
  /\ UNCHANGED <<g, opt, input, firstOut, memo>>

\* Lines 983-985: prepareHWModule goes on to the prettification pass.
StartPrettify ==
  /\ mode = "legalized"
  /\ mode' = "prettify"
  /\ memo' = << >>
  /\ stack' = <<[Frame(g, 0) EXCEPT !.phase = "pspill"]>>
  /\ UNCHANGED <<g, opt, run, input, firstOut, log>>

\* Lines 644-645 and 656-662: prettifyAfterLegalization returns; at once in a
\* procedural block.
PrettifyReturn ==
  /\ mode = "prettify"
  /\ \/ IsProceduralBlock(g, Top.blk)
     \/ Top.phase = "pnested" /\ Top.it = 0
  /\ IF Len(stack) = 1
     THEN stack' = << >> /\ mode' = "done"
     ELSE stack' = [Pop EXCEPT ![Len(stack) - 1].it = NextOp(g, @)] /\ mode' = mode
  /\ UNCHANGED <<g, opt, run, input, firstOut, memo, log>>

\* Lines 650-652: the decision d of shouldSpillWireBasedOnState is acted on.
Decided(d) ==
  /\ g' = IF d.spill THEN LowerUsersToTemporaryWire(g, Top.it, FALSE) ELSE g
  /\ memo' = d.memo
  /\ log' = IF d.spill THEN Append(log, Event("prettySpill", Top.it, <<>>, <<>>)) ELSE log

\* Lines 647-654: one iteration of the spilling loop.
PrettifyStep ==
  /\ mode = "prettify" /\ ~IsProceduralBlock(g, Top.blk)
  /\ Top.phase = "pspill" /\ Top.it # 0
  /\ IF IsVerilogExpression(g, Top.it)
     THEN Decided(ShouldSpillWireBasedOnState(g, opt, memo, Top.it))
     ELSE Decided([spill |-> FALSE, memo |-> memo])
  /\ stack' = SetTop([Top EXCEPT !.it = NextOp(g, Top.it)])
  /\ UNCHANGED <<opt, mode, run, input, firstOut>>

\* Line 656: the spilling loop is over; the walk over the regions starts.
PrettifyBeginNested ==
  /\ mode = "prettify" /\ ~IsProceduralBlock(g, Top.blk)
  /\ Top.phase = "pspill" /\ Top.it = 0
  /\ stack' = SetTop([Top EXCEPT !.phase = "pnested", !.it = FrontOp(g, Top.blk)])
  /\ UNCHANGED <<g, opt, mode, run, input, firstOut, memo, log>>

\* Lines 656-662: an operation without a region, or the recursive call.
PrettifyNested ==
  /\ mode = "prettify" /\ ~IsProceduralBlock(g, Top.blk)
  /\ Top.phase = "pnested" /\ Top.it # 0
  /\ stack' = IF Kind(g, Top.it) \in RegionKinds
              THEN Append(stack, [Frame(g, Top.it) EXCEPT !.phase = "pspill"])
              ELSE SetTop([Top EXCEPT !.it = NextOp(g, Top.it)])
  /\ UNCHANGED <<g, opt, mode, run, input, firstOut, memo, log>>

Next ==
  \/ NestedSkip
  \/ NestedDescend
  \/ BeginScan
  \/ ScanStep
  \/ ScanFail
  \/ ScanHang
  \/ FinishProcedural
  \/ BeginUseBeforeDef
  \/ UseBeforeDefStep
  \/ FinishGraph
  \/ Relegalize
  \/ StartPrettify
  \/ PrettifyStep
  \/ PrettifyBeginNested
  \/ PrettifyNested
  \/ PrettifyReturn

Spec == Init /\ [][Next]_vars

(***************************************************************************)
(* Well-formedness of the modelled IR.                                     *)
(***************************************************************************)
AllUsesOf(gr, v) ==
  UNION {{<<u, k>> : k \in {j \in 1..Len(gr.ops[u].args) : gr.ops[u].args[j] = v}} :
         u \in Live(gr)}
\* The use lists are exactly the operand references of the live operations,
\* every live operation is in the list of its block once, and no operand
\* refers to an erased operation.
WellFormed(gr) ==
  /\ \A o \in Live(gr) :
       /\ \A i \in 1..gr.ops[o].nres :
            LET ul == gr.ops[o].ru[i]
            IN /\ {ul[j] : j \in 1..Len(ul)} = AllUsesOf(gr, <<o, i>>)
               /\ Len(ul) = Cardinality(AllUsesOf(gr, <<o, i>>))
       /\ Cardinality({j \in 1..Len(gr.order[gr.ops[o].blk]) :
                         gr.order[gr.ops[o].blk][j] = o}) = 1
       /\ \A k \in 1..Len(gr.ops[o].args) :
            IsPort(gr.ops[o].args[k]) \/ DefOp(gr.ops[o].args[k]) \in Live(gr)
  /\ \A b \in DOMAIN gr.order : \A j \in 1..Len(gr.order[b]) : gr.ops[gr.order[b][j]].blk = b
IRWellFormed == WellFormed(g)

(***************************************************************************)
(* The properties of the specification.                                    *)
(***************************************************************************)
\* The blocks of the graph: the module body and the body of each region op.
Blocks(gr) == {0} \cup {o \in Live(gr) : Kind(gr, o) \in RegionKinds}
OpsIn(gr, b) == {o \in Live(gr) : BlockOf(gr, o) = b}
Logged(what) == \E i \in 1..Len(log) : log[i].what = what
\* legalizeHWModule has returned success on the graph g.
Legalized == mode = "legalized"

\* No use of a Value defined directly in block b precedes its definition,
\* a nested use counting at the position of its ancestor in b.
NoForwardReference(gr, b) ==
  \A o \in OpsIn(gr, b) : \A u \in Users(gr, o) :
    Encloses(gr, b, BlockOf(gr, u)) => Pos(gr, AncestorIn(gr, b, u)) >= Pos(gr, o)
NonProceduralBlocks(gr) == {b \in Blocks(gr) : ~IsProceduralBlock(gr, b)}

\* C1: after legalizeHWModule returns success, in every non-procedural block
\* every use of a Value defined in it is at or after the definition.
C1_NoForwardReferences ==
  Legalized => \A b \in NonProceduralBlocks(g) : NoForwardReference(g, b)
\* The input had a use before its definition and the use-before-def loop acted.
C1_Witness ==
  /\ Legalized /\ run = 1
  /\ \E b \in NonProceduralBlocks(input) : ~NoForwardReference(input, b)
  /\ Logged("useBeforeDef")

\* The side-effecting Expression nodes inside procedural regions, and the
\* form rewriteSideEffectingExpr leaves them in.
ProceduralSideEffects(gr) ==
  {o \in Live(gr) : /\ IsVerilogExpression(gr, o) /\ ~IsMemoryEffectFree(gr, o)
                    /\ IsProceduralBlock(gr, BlockOf(gr, o))}
SingleUseIntoDeclaration(gr, o) ==
  /\ HasOneUse(gr, o)
  /\ Kind(gr, FirstUse(gr, o)[1]) = "bpassign"
  /\ FirstUse(gr, o)[2] = 2
  /\ ~IsPort(gr.ops[FirstUse(gr, o)[1]].args[1])
  /\ Kind(gr, DefOp(gr.ops[FirstUse(gr, o)[1]].args[1])) \in {"reg", "logic"}

\* C2 as stated: after legalization every side-effecting Expression inside a
\* procedural region has exactly one use, a BPAssign into a reg or logic,
\* whatever the options are.
C2_SingleUseSideEffects_AnyOption ==
  Legalized => \A o \in ProceduralSideEffects(g) : SingleUseIntoDeclaration(g, o)
\* C2 amended: the same, in disallowLocalVariables mode only.
C2_SingleUseSideEffects ==
  (Legalized /\ opt.disallowLocalVariables)
    => \A o \in ProceduralSideEffects(g) : SingleUseIntoDeclaration(g, o)
\* A side-effecting Expression that was not in this form was rewritten and
\* is still inside its procedural region.
C2_Witness ==
  /\ Legalized /\ opt.disallowLocalVariables /\ Logged("sideEffect")
  /\ \E o \in ProceduralSideEffects(g) :
       o \in ProceduralSideEffects(input) /\ ~SingleUseIntoDeclaration(input, o)

\* The automatic logic declarations inside procedural regions.
ProceduralLogic(gr) ==
  {o \in Live(gr) : Kind(gr, o) = "logic" /\ IsProceduralBlock(gr, BlockOf(gr, o))}
\* Only declarations precede o in its block.
AtHeadOfBlock(gr, o) ==
  \A i \in 1..(Pos(gr, o) - 1) : Kind(gr, gr.order[BlockOf(gr, o)][i]) \in DeclKinds

\* C3: after legalization every logic inside a procedural region is in a
\* block that is not the body of an ifdef.procedural wrapper, and only
\* declarations precede it there; also when it was created by a spill.
C3_DeclarationPlacement ==
  Legalized => \A o \in ProceduralLogic(g) :
                 Kind(g, ParentOp(g, o)) # "ifdefproc" /\ AtHeadOfBlock(g, o)
\* A logic that started inside a wrapper, behind another operation, and a
\* logic created by a spill are both inside a procedural region.
C3_Witness ==
  /\ Legalized /\ Logged("spill")
  /\ \E o \in ProceduralLogic(g) :
       /\ o \in Live(input) /\ Kind(input, ParentOp(input, o)) = "ifdefproc"
       /\ ~AtHeadOfBlock(input, o)
  /\ \E o \in ProceduralLogic(g) : o \notin Live(input)

\* The structure of a graph, whatever its operations are numbered: an
\* operation is named by its path of positions from the module body.
RECURSIVE Path(_, _)
Path(gr, o) ==
  IF BlockOf(gr, o) = 0 THEN <<Pos(gr, o)>> ELSE Append(Path(gr, BlockOf(gr, o)), Pos(gr, o))
ShapeOfValue(gr, v) == IF IsPort(v) THEN <<"port", v[2]>> ELSE <<Path(gr, DefOp(v)), v[2]>>
RECURSIVE ShapeOfBlock(_, _)
ShapeOfOp(gr, o) ==
  [kind |-> gr.ops[o].kind, hint |-> gr.ops[o].hint, val |-> gr.ops[o].val,
   two |-> gr.ops[o].two, nres |-> gr.ops[o].nres,
   args |-> [k \in 1..Len(gr.ops[o].args) |-> ShapeOfValue(gr, gr.ops[o].args[k])],
   body |-> ShapeOfBlock(gr, o)]
ShapeOfBlock(gr, b) == [i \in 1..Len(gr.order[b]) |-> ShapeOfOp(gr, gr.order[b][i])]
Shape(gr) == ShapeOfBlock(gr, 0)

\* C4: a second run of legalizeHWModule on the output of a successful run
\* returns a graph of the same structure: the same operations in the same
\* order with the same operands.
C4_Idempotent ==
  (Legalized /\ run = 2) => Shape(g) = Shape(firstOut)

\* The value of the comb operations on Width-bit integers.
RECURSIVE XorBits(_, _, _), AndBits(_, _, _)
XorBits(a, b, n) ==
  IF n = 0 THEN 0 ELSE ((a + b) % 2) + 2 * XorBits(a \div 2, b \div 2, n - 1)
AndBits(a, b, n) ==
  IF n = 0 THEN 0 ELSE ((a % 2) * (b % 2)) + 2 * AndBits(a \div 2, b \div 2, n - 1)
Apply(kind, a, b) ==
  CASE kind = "add" -> (a + b) % Pow2(Width)
    [] kind = "mul" -> (a * b) % Pow2(Width)
    [] kind = "xor" -> XorBits(a, b, Width)
    [] kind = "and" -> AndBits(a, b, Width)
\* A concrete input assignment gives every port a value; a constant has its own.
Assignments == [1..3 -> 0..(Pow2(Width) - 1)]
LeafValue(gr, env, v) == IF IsPort(v) THEN env[v[2]] ELSE gr.ops[DefOp(v)].val
\* The N-ary node applied to the values of xs, from the left.
RECURSIVE EvalOperands(_, _, _, _)
EvalOperands(gr, env, kind, xs) ==
  IF Len(xs) = 1 THEN LeafValue(gr, env, xs[1])
  ELSE Apply(kind, EvalOperands(gr, env, kind, SubSeq(xs, 1, Len(xs) - 1)),
             LeafValue(gr, env, xs[Len(xs)]))
\* The tree below Value v whose internal nodes are the operations of T.
IsInternal(v, T) == ~IsPort(v) /\ DefOp(v) \in T
RECURSIVE EvalTree(_, _, _, _), Leaves(_, _, _), Depth(_, _, _)
EvalTree(gr, env, v, T) ==
  IF ~IsInternal(v, T) THEN LeafValue(gr, env, v)
  ELSE Apply(gr.ops[DefOp(v)].kind, EvalTree(gr, env, gr.ops[DefOp(v)].args[1], T),
             EvalTree(gr, env, gr.ops[DefOp(v)].args[2], T))
Leaves(gr, v, T) ==
  IF ~IsInternal(v, T) THEN <<v>>
  ELSE Leaves(gr, gr.ops[DefOp(v)].args[1], T) \o Leaves(gr, gr.ops[DefOp(v)].args[2], T)
Depth(gr, v, T) ==
  IF ~IsInternal(v, T) THEN 0
  ELSE LET l == Depth(gr, gr.ops[DefOp(v)].args[1], T)
           r == Depth(gr, gr.ops[DefOp(v)].args[2], T)
       IN 1 + (IF l > r THEN l ELSE r)
\* ceil(log2 n)
CeilLog2(n) == CHOOSE d \in 0..n : Pow2(d) >= n /\ (d = 0 \/ Pow2(d - 1) < n)
SetOf(seq) == {seq[i] : i \in 1..Len(seq)}

\* What balancing the operation ev.op of graph old, with operands ev.vals,
\* into the operations ev.newOps of graph new has to satisfy.
BalancedTree(old, new, ev) ==
  LET N == Len(ev.vals)
      T == SetOf(ev.newOps)
      root == CHOOSE r \in T : \A t \in T : \A k \in 1..Len(new.ops[t].args) :
                                   new.ops[t].args[k] # Res(r)
  IN /\ Len(ev.newOps) = N - 1 /\ Cardinality(T) = N - 1
     /\ \A t \in T : /\ t \in Live(new)
                     /\ new.ops[t].kind = old.ops[ev.op].kind
                     /\ Len(new.ops[t].args) = 2
     /\ Leaves(new, Res(root), T) = ev.vals
     /\ Depth(new, Res(root), T) = CeilLog2(N)
     /\ \A env \in Assignments :
          EvalTree(new, env, Res(root), T) = EvalOperands(old, env, old.ops[ev.op].kind, ev.vals)
     /\ ev.op \notin Live(new)
     /\ \A i \in 1..Len(UseList(old, Res(ev.op))) :
          LET use == UseList(old, Res(ev.op))[i]
          IN new.ops[use[1]].args[use[2]] = Res(root)
     /\ Len(UseList(new, Res(root))) = Len(UseList(old, Res(ev.op)))
LastEvent(lg) == lg[Len(lg)]
BalanceStep == Len(log') = Len(log) + 1 /\ LastEvent(log').what = "balance"

\* C5: whenever the scan balances a commutative node of N > 2 operands, the
\* N - 1 new nodes are binary nodes of the same operator forming a tree of
\* depth ceil(log2 N) whose leaves are the N operands in order and whose
\* value is that of the N-ary node for every input assignment; the node is
\* erased and its uses refer to the root.
C5_BalancingCorrect ==
  [][BalanceStep => (Len(LastEvent(log').vals) > 2 /\ BalancedTree(g, g', LastEvent(log')))]_vars
\* A five-operand add has just been balanced into four adds of depth 3.
C5_Witness ==
  /\ log # << >> /\ LastEvent(log).what = "balance"
  /\ Len(LastEvent(log).vals) = 5
  /\ Len(LastEvent(log).newOps) = 4
  /\ \A t \in SetOf(LastEvent(log).newOps) : Kind(g, t) = "add"
  /\ Depth(g, Res(LastEvent(log).newOps[4]), SetOf(LastEvent(log).newOps)) = 3

\* The operations of an unrecognized dialect.
Unsupported(gr) == {o \in Live(gr) : Kind(gr, o) \notin KnownKinds}
Succeeded == mode \in {"legalized", "prettify", "done"}
\* The step on which legalizeHWModule returns failure.
FailureStep == mode = "legalize" /\ mode' = "failed"

\* C6: prepareHWModule fails exactly when the module holds an operation of an
\* unrecognized dialect; the failing scan stops at such an operation, no
\* enclosing block has started its scan, and after the failure nothing runs
\* again, the prettification pass included.
C6_UnsupportedIsOnlyError ==
  /\ [](mode = "failed" => Unsupported(input) # {})
  /\ [](Succeeded => Unsupported(input) = {})
  /\ [][FailureStep => /\ Top.it \in Unsupported(g)
                        /\ g' = g
                        /\ \A i \in 1..(Len(stack) - 1) : stack[i].phase = "nested"]_vars
  /\ [][mode # "failed"]_vars

\* The always-inline Expression nodes and the owner of the single use of one.
AlwaysInline(gr) == {o \in Live(gr) : IsExpressionAlwaysInline(gr, o)}
TheUser(gr, o) == OpUses(gr, o)[1][1]
\* o is before u in the block of u, and nothing but always-inline nodes (the
\* other operands inlined into u) is between them.
InlineRunBefore(gr, o, u) ==
  /\ BlockOf(gr, o) = BlockOf(gr, u) /\ Pos(gr, o) < Pos(gr, u)
  /\ \A i \in (Pos(gr, o) + 1)..(Pos(gr, u) - 1) :
       IsExpressionAlwaysInline(gr, gr.order[BlockOf(gr, u)][i])

\* C7: after legalization every always-inline expression has exactly one
\* use (none is left without a use) and sits in the block of its user,
\* immediately before it: only always-inline nodes, the user's other inlined
\* operands, may be between the two.
C7_AlwaysInlineDiscipline ==
  Legalized => \A o \in AlwaysInline(g) :
                 HasOneUse(g, o) /\ InlineRunBefore(g, o, TheUser(g, o))

\* The Value of o is a Declaration, a selection of one, or a Read of one:
\* not a raw expression result.
IsReadOfDeclaration(gr, o) ==
  Kind(gr, o) = "read" /\ IsSimpleReadOrPort(gr, Res(o))
IsRawExpression(gr, o) ==
  IsVerilogExpression(gr, o) /\ ~IsInOutTyped(gr, o) /\ ~IsReadOfDeclaration(gr, o)
\* The users of o that are not in the block of o.
UsersOutside(gr, o) == {u \in Users(gr, o) : BlockOf(gr, u) # BlockOf(gr, o)}

\* C8: after legalization no result of an expression other than a Read of a
\* Declaration is used by an operation outside the block that holds the
\* expression.
C8_NoExportAcrossContainers ==
  Legalized => \A o \in Live(g) : IsRawExpression(g, o) => UsersOutside(g, o) = {}

\* The step on which the scan processes an Instance (lines 706-713).
InstanceStep == Len(log') = Len(log) + 1 /\ LastEvent(log').what = "instance"
Instances(gr) == {o \in Live(gr) : Kind(gr, o) = "instance"}
InputsSimple(gr, o) ==
  \A k \in 1..Len(gr.ops[o].args) : IsSimpleReadOrPort(gr, gr.ops[o].args[k])
IsNew(old, o) == o > Len(old.ops)
\* Input k of o, src before the step, is a new Read, placed before o, of a new
\* wire into which src is connected.
ThroughNewWire(old, new, o, k, src) ==
  LET v == new.ops[o].args[k] IN
  /\ ~IsPort(v) /\ IsNew(old, DefOp(v)) /\ Kind(new, DefOp(v)) = "read"
  /\ BlockOf(new, DefOp(v)) = BlockOf(new, o) /\ Pos(new, DefOp(v)) < Pos(new, o)
  /\ LET w == new.ops[DefOp(v)].args[1] IN
       /\ IsNew(old, DefOp(w)) /\ Kind(new, DefOp(w)) = "wire"
       /\ \E a \in Live(new) : Kind(new, a) = "assign" /\ new.ops[a].args = <<w, src>>
\* What the step does to the inputs of Instance o.
InputsAnchored(old, new, o) ==
  \A k \in 1..Len(old.ops[o].args) :
    IF IsSimpleReadOrPort(old, old.ops[o].args[k])
    THEN new.ops[o].args[k] = old.ops[o].args[k]
    ELSE ThroughNewWire(old, new, o, k, old.ops[o].args[k])
\* The Instances the scan of this run has processed.
Processed == {log[i].op : i \in {j \in 1..Len(log) : log[j].what = "instance"}}

ConnectionsOf(gr, o) ==
  {a \in Live(gr) : /\ Kind(gr, a) = "assign" /\ ~IsPort(gr.ops[a].args[2])
                    /\ DefOp(gr.ops[a].args[2]) = o}
\* u is in the block of o right after it (strict), or after it with nothing
\* but Connections of the results of o in between.
PlacedAfter(gr, o, u, strict) ==
  /\ BlockOf(gr, u) = BlockOf(gr, o) /\ Pos(gr, u) > Pos(gr, o)
  /\ strict => Pos(gr, u) = Pos(gr, o) + 1
  /\ \A i \in (Pos(gr, o) + 1)..(Pos(gr, u) - 1) :
       gr.order[BlockOf(gr, o)][i] \in ConnectionsOf(gr, o)
\* The user a of the result is the Connection of a new wire, and every
\* former use of the result is now a new Read of that wire.
ThroughOneNewWire(old, new, a, oldUses) ==
  LET w == new.ops[a].args[1] IN
  /\ IsNew(old, a) /\ Kind(new, a) = "assign"
  /\ ~IsPort(w) /\ IsNew(old, DefOp(w)) /\ Kind(new, DefOp(w)) = "wire"
  /\ \A j \in 1..Len(oldUses) :
       LET v == new.ops[oldUses[j][1]].args[oldUses[j][2]] IN
       /\ ~IsPort(v) /\ IsNew(old, DefOp(v))
       /\ Kind(new, DefOp(v)) = "read" /\ new.ops[DefOp(v)].args = <<w>>
\* What the step does to result i of Instance o.
ResultAnchored(old, new, o, i, strict) ==
  LET oldUses == UseList(old, <<o, i>>)
      uses == UseList(new, <<o, i>>)
  IN /\ Len(uses) = 1
     /\ \/ Kind(new, uses[1][1]) = "output"
        \/ Kind(new, uses[1][1]) = "assign" /\ PlacedAfter(new, o, uses[1][1], strict)
     /\ IF Len(oldUses) = 1 /\ Kind(old, oldUses[1][1]) \in {"output", "assign"}
        THEN uses = oldUses
        ELSE ThroughOneNewWire(old, new, uses[1][1], oldUses)
ResultsAnchored(old, new, o, strict) ==
  \A i \in 1..old.ops[o].nres : ResultAnchored(old, new, o, i, strict)

AssignUses(gr, o) == SelectSeq(OpUses(gr, o), LAMBDA use : Kind(gr, use[1]) = "assign")
OtherUses(gr, o) == SelectSeq(OpUses(gr, o), LAMBDA use : Kind(gr, use[1]) # "assign")
\* The conditions under which an existing Declaration is reused for o.
Reusable(gr, o) ==
  /\ Len(AssignUses(gr, o)) = 1
  /\ ParentOp(gr, AssignUses(gr, o)[1][1]) = 0
  /\ OtherUses(gr, o) # << >>
  /\ Kind(gr, o) # "const"
\* Operand k of u is a new Read, placed right before u, of dest; the
\* always-inline operation that defines dest may have been duplicated for it.
ReadsDest(old, new, u, k, dest) ==
  LET v == new.ops[u].args[k] IN
  /\ ~IsPort(v) /\ IsNew(old, DefOp(v)) /\ Kind(new, DefOp(v)) = "read"
  /\ BlockOf(new, DefOp(v)) = BlockOf(new, u)
  /\ LET d == new.ops[DefOp(v)].args[1] IN
       \/ d = dest
       \/ /\ ~IsPort(d) /\ IsNew(old, DefOp(d)) /\ ~IsPort(dest)
          /\ IsExpressionAlwaysInline(old, DefOp(dest))
          /\ Kind(new, DefOp(d)) = Kind(old, DefOp(dest))
\* The graph new is old with the other uses of o reading the destination of
\* its Connection, and with no Declaration added.
ReusedDeclaration(old, new, o) ==
  LET a == AssignUses(old, o)[1][1] IN
  /\ OpUses(new, o) = <<AssignUses(old, o)[1]>>
  /\ a \in Live(new) /\ new.ops[a].args[2] = Res(o)
  /\ \A j \in 1..Len(OtherUses(old, o)) :
       ReadsDest(old, new, OtherUses(old, o)[j][1], OtherUses(old, o)[j][2], old.ops[a].args[1])
  /\ \A n \in Live(new) : IsNew(old, n) => Kind(new, n) \notin DeclKinds
\* The expressions reuseExistingInOut is offered: those of graph blocks.
Offered(gr) ==
  {o \in Live(gr) : IsVerilogExpression(gr, o) /\ ~IsProceduralBlock(gr, BlockOf(gr, o))}
ReuseAsClaimed(gr, o, r) ==
  IF Reusable(gr, o) THEN r.changed /\ ReusedDeclaration(gr, r.g, o)
  ELSE ~r.changed /\ r.g = gr

AddNegativeStep == Len(log') = Len(log) + 1 /\ LastEvent(log').what = "addNegative"
Values == 0..(Pow2(Width) - 1)
Sum(x, y) == (x + y) % Pow2(Width)
Difference(x, y) == (x + Pow2(Width) - y) % Pow2(Width)
IsPositive(x) == x # 0 /\ ~IsNegative(x)
\* The add ev.op of old, a + c with c the negative constant ev.vals[2], is in
\* new the subtract ev.newOps[2] of a and the new constant ev.newOps[1].
AddRewritten(old, new, ev, positive) ==
  LET c == DefOp(ev.vals[2])
      negCst == ev.newOps[1]
      sub == ev.newOps[2]
  IN /\ IsNegative(old.ops[c].val)
     /\ Kind(new, negCst) = "const" /\ negCst \in Live(new)
     /\ Sum(new.ops[negCst].val, old.ops[c].val) = 0
     /\ positive => IsPositive(new.ops[negCst].val)
     /\ sub \in Live(new) /\ Kind(new, sub) = "sub"
     /\ new.ops[sub].args = <<ev.vals[1], Res(negCst)>>
     /\ \A x \in Values :
          Difference(x, new.ops[negCst].val) = Sum(x, old.ops[c].val)
     /\ ev.op \notin Live(new)
     /\ \A j \in 1..Len(UseList(old, Res(ev.op))) :
          new.ops[UseList(old, Res(ev.op))[j][1]].args[UseList(old, Res(ev.op))[j][2]]
            = Res(sub)
     /\ c \in Live(new) <=>
          (\/ ev.vals[1] = Res(c)
           \/ \E j \in 1..Len(UseList(old, Res(c))) : UseList(old, Res(c))[j][1] # ev.op)

PrettySpillStep == Len(log') = Len(log) + 1 /\ LastEvent(log').what = "prettySpill"
\* What the only use of an exempt expression may be.
Sinks == {"output", "assign", "bpassign", "instance"}
OnlyUser(gr, o) == FirstUse(gr, o)[1]
\* The only use of o is one of sinks, directly or through a bitcast used once,
\* whose only use is then one of sinksOfBitcast.
OnlyUseIn(gr, o, sinks, sinksOfBitcast) ==
  /\ HasOneUse(gr, o)
  /\ \/ Kind(gr, OnlyUser(gr, o)) \in sinks
     \/ /\ Kind(gr, OnlyUser(gr, o)) = "bitcast"
        /\ HasOneUse(gr, OnlyUser(gr, o))
        /\ Kind(gr, OnlyUser(gr, OnlyUser(gr, o))) \in sinksOfBitcast
TrivialForSpilling(gr, o) ==
  gr.ops[o].nres = 0 \/ IsInOutTyped(gr, o) \/ Kind(gr, o) \in {"read", "const"}
Exempt(gr, o) == TrivialForSpilling(gr, o) \/ OnlyUseIn(gr, o, Sinks, Sinks)

\* C13: the prettification pass never spills an expression that has no
\* result, is storage-typed, is a read or a constant, or whose only use is an
\* output, an assign, a bpassign or an instance operand, directly or through
\* one bitcast that is used once, whatever its cost.
C13_PrettifyExemptions ==
  [][PrettySpillStep => ~Exempt(g, LastEvent(log').op)]_vars

\* The prettification pass is about to decide on the operation Top.it of a
\* non-procedural block.
Deciding ==
  /\ mode = "prettify" /\ stack # << >>
  /\ ~IsProceduralBlock(g, Top.blk) /\ Top.phase = "pspill" /\ Top.it # 0
EstimatedCost(o) == GetExpressionState(g, memo, Res(o)).size
\* The thresholds: limitReached(cost, limit) is the test against
\* wireSpillingNamehintTermLimit.
SpillByThresholds(o, limitReached(_, _)) ==
  \/ EstimatedCost(o) > opt.maximumNumberOfTermsPerExpression
  \/ /\ opt.spillLargeTermsWithNamehints /\ g.ops[o].hint # ""
     /\ \/ ~HasInternalPrefix(g.ops[o].hint)
        \/ limitReached(EstimatedCost(o), opt.wireSpillingNamehintTermLimit)
Exceeds(cost, limit) == cost > limit
DecidedBy(limitReached(_, _)) ==
  Deciding /\ IsVerilogExpression(g, Top.it) /\ ~Exempt(g, Top.it)
    => (PrettySpillStep <=> SpillByThresholds(Top.it, limitReached))

\* C14: an expression of a non-procedural block that is not exempt is spilled
\* by the prettification pass exactly when its cost is greater than
\* maximumNumberOfTermsPerExpression or, with the name-hint heuristic on, it
\* has a name hint that either lacks the "_" prefix or comes with a cost
\* greater than wireSpillingNamehintTermLimit.
C14_PrettifyThresholds == [][DecidedBy(Exceeds)]_vars

\* The cost of a value on the graph gr, computed afresh: 1 for a port and for
\* the result of an operation without operands, the sum over the operand
\* positions otherwise.
RECURSIVE Cost(_, _), CostFrom(_, _, _)
Cost(gr, v) ==
  IF IsPort(v) THEN 1
  ELSE IF gr.ops[DefOp(v)].args = << >> THEN 1
  ELSE CostFrom(gr, DefOp(v), 1)
CostFrom(gr, o, k) ==
  IF k > Len(gr.ops[o].args) THEN 0
  ELSE Cost(gr, gr.ops[o].args[k]) + CostFrom(gr, o, k + 1)
\* The values the pass may ask the cost of at this point.
Askable == {Res(o) : o \in {x \in Live(g) : g.ops[x].nres > 0}} \cup {Port(1), Port(2)}

\* C15: throughout the prettification pass every memoized cost, and the cost
\* the estimator returns for any value of the graph, is the cost a fresh
\* computation on the current graph gives, and is at least 1.
C15_CostEstimate ==
  mode = "prettify" =>
    /\ \A v \in DOMAIN memo : memo[v] = Cost(g, v) /\ memo[v] >= 1
    /\ \A v \in Askable :
         GetExpressionState(g, memo, v).size = Cost(g, v) /\ Cost(g, v) >= 1
\* The pass has spilled an expression whose cost is memoized, and has since
\* memoized the cost of a user of it, which now reads the new wire.
C15_Witness ==
  /\ mode = "prettify"
  /\ \E i \in 1..Len(log) : \E a, r, u \in Live(g) :
       /\ log[i].what = "prettySpill" /\ Res(log[i].op) \in DOMAIN memo
       /\ Kind(g, a) = "assign" /\ g.ops[a].args[2] = Res(log[i].op)
       /\ Kind(g, r) = "read" /\ g.ops[r].args[1] = g.ops[a].args[1]
       /\ Res(r) \in SetOf(g.ops[u].args)
       /\ Res(u) \in DOMAIN memo /\ memo[Res(u)] >= 2

\* The value v is visible at the operation o: it is a port, or it is defined
\* in a block that holds o at some depth and, in a procedural block, before o.
Dominates(gr, v, o) ==
  \/ IsPort(v)
  \/ /\ Encloses(gr, BlockOf(gr, DefOp(v)), BlockOf(gr, o))
     /\ IsProceduralBlock(gr, BlockOf(gr, DefOp(v)))
          => Pos(gr, DefOp(v)) < Pos(gr, AncestorIn(gr, BlockOf(gr, DefOp(v)), o))
DefinedInProcedural(gr, v) == ~IsPort(v) /\ IsProceduralBlock(gr, BlockOf(gr, DefOp(v)))
DefinedInBlockOf(gr, v, o) == ~IsPort(v) /\ BlockOf(gr, DefOp(v)) = BlockOf(gr, o)
NeverHoisted(gr, o) ==
  IsExpressionAlwaysInline(gr, o) /\ ~(Kind(gr, o) = "read" \/ IsInOutTyped(gr, o))
\* The scan is at a side-effect-free expression of a procedural block, which
\* line 783 hands to hoistNonSideEffectExpr.
HoistCandidate ==
  /\ mode = "legalize" /\ stack # << >> /\ Top.phase = "scan" /\ Top.it # 0
  /\ opt.disallowLocalVariables /\ BlockOf(g, Top.it) = Top.blk
  /\ IsProceduralBlock(g, Top.blk)
  /\ IsVerilogExpression(g, Top.it) /\ IsMemoryEffectFree(g, Top.it)
\* r is what hoisting o in gr gives, as the claim has it.
HoistAsClaimed(gr, o, r) ==
  LET args == gr.ops[o].args
      someInProc == \E k \in 1..Len(args) : DefinedInProcedural(gr, args[k])
      someInOwn == \E k \in 1..Len(args) : DefinedInBlockOf(gr, args[k], o)
      oneLevel == BlockOf(gr, ParentOp(gr, o))
      allTheWay == BlockOf(gr, FindParentInNonProceduralRegion(gr, o))
  IN /\ r.changed <=> BlockOf(r.g, o) # BlockOf(gr, o)
     /\ someInOwn => ~r.changed
     /\ someInProc /\ ~someInOwn /\ ~NeverHoisted(gr, o)
          => r.changed /\ BlockOf(r.g, o) = oneLevel
     /\ ~someInProc /\ ~NeverHoisted(gr, o)
          => r.changed /\ BlockOf(r.g, o) = allTheWay
     /\ r.changed => \A k \in 1..Len(args) : Dominates(r.g, args[k], o)

\* C16: an expression handed to hoisting goes to the nearest enclosing
\* non-procedural block when no operand is defined in a procedural block, one
\* level out when some operand is defined in an enclosing procedural block,
\* and stays when any operand is defined in its own block; wherever it goes,
\* every operand is still defined before and around it.
C16_HoistKeepsDominance ==
  HoistCandidate => HoistAsClaimed(g, Top.it, HoistNonSideEffectExpr(g, Top.it))

\* The root of the tree the balance event ev has built: the node created last.
RootOf(ev) == ev.newOps[Len(ev.newOps)]
InnerOf(ev) == SetOf(ev.newOps) \ {RootOf(ev)}
\* The name hint of the balanced node is on the root alone; its two-state
\* marker is on the root and, on the inner nodes, as innerTwoState says.
MarkersKept(old, new, ev, innerTwoState(_)) ==
  /\ new.ops[RootOf(ev)].hint = old.ops[ev.op].hint
  /\ new.ops[RootOf(ev)].two = old.ops[ev.op].two
  /\ \A t \in InnerOf(ev) : new.ops[t].hint = "" /\ new.ops[t].two = innerTwoState(old.ops[ev.op].two)
Dropped(two) == FALSE
Copied(two) == two

\* C17 as stated: no inner node of the tree carries the name hint or the
\* two-state marker.
C17_MarkersOnRootOnly ==
  [][BalanceStep => MarkersKept(g, g', LastEvent(log'), Dropped)]_vars
\* C17: when a commutative node of more than two operands is balanced, its
\* name hint is on the root of the tree and on no inner node, and its
\* two-state marker is on every node of the tree, the inner ones included.
C17_BalancingMarkers ==
  [][BalanceStep => MarkersKept(g, g', LastEvent(log'), Copied)]_vars
\* A node with a name hint and the two-state marker has just been balanced
\* into a tree with inner nodes.
C17_Witness ==
  /\ log # << >> /\ LastEvent(log).what = "balance"
  /\ InnerOf(LastEvent(log)) # {}
  /\ g.ops[RootOf(LastEvent(log))].hint # "" /\ g.ops[RootOf(LastEvent(log))].two
  /\ \A t \in InnerOf(LastEvent(log)) : g.ops[t].hint = "" /\ g.ops[t].two

\* a comes before b in one block; strictly: right before it; otherwise with
\* nothing but operations created since old in between.
Adjacent(old, new, a, b, strictly) ==
  /\ BlockOf(new, a) = BlockOf(new, b) /\ Pos(new, a) < Pos(new, b)
  /\ strictly => Pos(new, b) = Pos(new, a) + 1
  /\ \A i \in (Pos(new, a) + 1)..(Pos(new, b) - 1) :
       IsNew(old, new.order[BlockOf(new, a)][i])
\* Use j of the result v in old refers in new to a Read of its own of the
\* declaration d, placed before the using operation.
ReadsThrough(old, new, v, j, d, strictly) ==
  LET use == UseList(old, v)[j]
      r == DefOp(new.ops[use[1]].args[use[2]])
  IN /\ ~IsPort(new.ops[use[1]].args[use[2]]) /\ IsNew(old, r)
     /\ Kind(new, r) = "read" /\ new.ops[r].args = <<Res(d)>>
     /\ UseList(new, Res(r)) = <<use>>
     /\ Adjacent(old, new, r, use[1], strictly)
\* Result v of o, spilled: one use, the Connection c into the new declaration
\* d; c after o; d after o or at the front of the block; the former uses
\* through Reads.
ResultSpilled(old, new, o, v, atBegin, strictly) ==
  LET proc == IsProceduralBlock(old, BlockOf(old, o))
      c == UseList(new, v)[1][1]
      d == DefOp(new.ops[c].args[1])
  IN /\ Len(UseList(new, v)) = 1 /\ IsNew(old, c)
     /\ Kind(new, c) = (IF proc THEN "bpassign" ELSE "assign")
     /\ new.ops[c].args[2] = v /\ ~IsPort(new.ops[c].args[1])
     /\ IsNew(old, d) /\ Kind(new, d) = (IF proc THEN "logic" ELSE "wire")
     /\ Adjacent(old, new, o, c, strictly)
     /\ IF atBegin THEN Pos(new, d) < Pos(new, FrontOp(old, BlockOf(old, o)))
                         /\ BlockOf(new, d) = BlockOf(old, o)
        ELSE Adjacent(old, new, o, d, strictly) /\ NextOp(new, d) = c
     /\ \A j \in 1..Len(UseList(old, v)) : ReadsThrough(old, new, v, j, d, strictly)
NewDeclarations(old, new) ==
  {d \in Live(new) : IsNew(old, d) /\ Kind(new, d) \in DeclKinds}
SpilledAsClaimed(old, new, o, atBegin, strictly) ==
  /\ Cardinality(NewDeclarations(old, new)) = old.ops[o].nres
  /\ \A i \in 1..old.ops[o].nres : ResultSpilled(old, new, o, <<o, i>>, atBegin, strictly)
  /\ old.ops[o].nres = 1 /\ atBegin
       => NextOp(new, o) = UseList(new, Res(o))[1][1]
          /\ FrontOp(new, BlockOf(old, o)) = DefOp(new.ops[NextOp(new, o)].args[1])
\* The operation a loop of the pass is at can be handed to
\* lowerUsersToTemporaryWire.
AtSpillable ==
  /\ mode \in {"legalize", "prettify"} /\ stack # << >> /\ Top.it # 0
  /\ Top.it \in Live(g) /\ g.ops[Top.it].nres > 0 /\ ~IsInOutTyped(g, Top.it)
  /\ IsVerilogExpression(g, Top.it) \/ Kind(g, Top.it) = "instance"

\* C18 as stated: the Connection is right after the node, the Declaration is
\* right after the node (by default), and each Read is right before the
\* operation that uses it.
C18_SpillMaterialization_Immediately ==
  AtSpillable => \A b \in BOOLEAN :
    SpilledAsClaimed(g, LowerUsersToTemporaryWire(g, Top.it, b), Top.it, b, TRUE)
\* C18: spilling a node creates one declaration per result (a logic in a
\* procedural block, a wire otherwise); the result is then used once, by a
\* Connection into the declaration (bpassign or assign) that follows the
\* node; by default the declaration stands between the node and the
\* Connection, otherwise at the front of the block with the Connection right
\* after the node (one result); every former use refers to a Read of its own,
\* placed before the using operation with only other new Reads in between.
C18_SpillMaterialization ==
  AtSpillable => \A b \in BOOLEAN :
    SpilledAsClaimed(g, LowerUsersToTemporaryWire(g, Top.it, b), Top.it, b, FALSE)
\* The scan has just spilled a node that had several uses: the node, its new
\* wire and the Connection stand in a row and the node is used once.
C18_Witness ==
  /\ log # << >> /\ LastEvent(log).what = "spill" /\ LastEvent(log).op \in Live(g)
  /\ LET o == LastEvent(log).op IN
       /\ Len(OpUses(g, o)) = 1 /\ Len(OpUses(input, o)) > 1
       /\ Kind(g, NextOp(g, o)) = "wire" /\ IsNew(input, NextOp(g, o))
       /\ Kind(g, NextOp(g, NextOp(g, o))) = "assign"
       /\ g.ops[NextOp(g, NextOp(g, o))].args = <<Res(NextOp(g, o)), Res(o)>>

Controls(gr) == {o \in Live(gr) : Kind(gr, o) \in {"always", "alwaysff"}}
\* What an event control may hold when expressions are not allowed there.
TriggerLegal(gr, v) ==
  IsSimpleReadOrPort(gr, v) \/ (~IsPort(v) /\ Kind(gr, DefOp(v)) = "instance")
\* The expression expr, operand k of the always o in old, is in new connected
\* into a new wire and used by nothing else; operand k and every former use of
\* expr is a Read of its own of that wire.
TriggerThroughWire(old, new, o, k, expr) ==
  LET r == DefOp(new.ops[o].args[k])
      w == DefOp(new.ops[r].args[1])
  IN /\ ~IsPort(new.ops[o].args[k]) /\ IsNew(old, r) /\ Kind(new, r) = "read"
     /\ IsNew(old, w) /\ Kind(new, w) = "wire"
     /\ Len(UseList(new, expr)) = 1
     /\ Kind(new, UseList(new, expr)[1][1]) = "assign"
     /\ new.ops[UseList(new, expr)[1][1]].args = <<Res(w), expr>>
     /\ \A j \in 1..Len(UseList(old, expr)) :
          LET use == UseList(old, expr)[j]
              rd == DefOp(new.ops[use[1]].args[use[2]])
          IN /\ IsNew(old, rd) /\ Kind(new, rd) = "read" /\ new.ops[rd].args = <<Res(w)>>
             /\ UseList(new, Res(rd)) = <<use>>
EventControlStep == Len(log') = Len(log) + 1 /\ LastEvent(log').what = "eventControl"
\* The step of the scan on an always puts every operand that is not legal
\* behind a wire of its own and leaves the others alone.
EventControlRewrites ==
  [][EventControlStep =>
       \A k \in 1..Len(LastEvent(log').vals) :
         LET o == LastEvent(log').op
             expr == LastEvent(log').vals[k]
         IN /\ TriggerLegal(g', g'.ops[o].args[k])
            /\ IF TriggerLegal(g, expr) THEN g'.ops[o].args[k] = expr
               ELSE \E j \in 1..k : /\ LastEvent(log').vals[j] = expr
                                     /\ TriggerThroughWire(g, g', o, j, expr)]_vars

\* C19: when allowExprInEventControl is false, after legalization every
\* operand of every always and always_ff is a read of a wire, reg or logic, a
\* port, or a result of an instance.
C19_TriggersLegal ==
  Legalized /\ ~opt.allowExprInEventControl =>
    \A o \in Controls(g) : \A k \in 1..Len(g.ops[o].args) : TriggerLegal(g, g.ops[o].args[k])

\* The activation on top is inside an iteration of its forward scan that
\* does not return.
ScanStuck == mode = "legalize" /\ stack # << >> /\ Top.phase = "recursing"
\* The number of times the scans have lowered the always-inline operation o
\* from the loop.
LoweredFromLoop(o) ==
  Cardinality({i \in 1..Len(log) : log[i].what = "alwaysInline" /\ log[i].op = o})

\* C20: the forward scan of a block terminates on every input graph; no
\* iteration of it goes into the lowering of an always-inline operation
\* without coming back.
C20_ScanTerminates == ~ScanStuck

====
